---- MODULE Spec2Model ----
(***************************************************************************)
(* Client runtime of the sales Mini App (webapp main module + tg bridge):  *)
(* the single mutable AppState, the handlers that mutate it, the two async *)
(* request lifecycles (catalog search, assistant ask) and the progress     *)
(* ticker.  Every handler is one action; render() at the end of a handler  *)
(* is part of the action (the rendered DOM and the host main-button        *)
(* subscription are recomputed from the new state).                        *)
(***************************************************************************)
EXTENDS Integers, Sequences, FiniteSets, TLC

VARIABLES
    view,               \* state.view
    criteria,           \* state.criteria
    results,            \* state.results
    loading,            \* state.loading
    error,              \* state.error
    chatInput,          \* state.chatInput (a string: sequence of characters)
    chatMessages,       \* state.chatMessages
    chatLoading,        \* state.chatLoading
    chatProgressText,   \* state.chatProgressText
    chatElapsedSec,     \* state.chatElapsedSec
    chatProgressTimer,  \* module-level handle of the progress interval
    liveTimers,         \* intervals the window still holds (ids)
    timerSeq,           \* last interval id handed out by setInterval
    mainButtonHandler,  \* module-level mainButtonHandler (its kind)
    dom,                \* what the last render() put on the page
    resultSummary,      \* the summary card the last render() put on the page
    askReqs,            \* /api/assistant/ask requests in flight
    catalogReqs,        \* /api/catalog/search requests in flight
    asksStarted,        \* history: asks that entered Sending
    asksCompleted,      \* history: asks whose continuation has run
    lastOp,             \* history: the handler that ran last, and the view it ran in
    errIn,              \* error-body reader: the response under examination
    errOut,             \* error-body reader: the AssistantApiError produced
    askIn,              \* ask texts: the HTTP outcome of one ask
    askOut,             \* ask texts: state.error and the entries the ask pushed
    coachmarkStep,      \* state.coachmarkStep
    storage,            \* localStorage: the coachmark flag, and whether access throws
    host,               \* what the host (Telegram client or plain browser) provides
    mainButton,         \* host side of MainButton: visibility and subscribed handlers
    matchQuality,       \* state.matchQuality
    managerRecommended, \* state.managerRecommended
    managerMessage,     \* state.managerMessage
    managerCallToAction, \* state.managerCallToAction
    lastManagerOffer,   \* state.lastManagerOffer
    branding,           \* state.brandName, advisorName, managerLabel, managerChatUrl, userMiniappUrl
    user,               \* state.user
    bootReqs,           \* the two boot fetches (meta, whoami) and the render() that follows them
    linkCall,           \* openExternalLink: one call, its arguments and what it did
    managerContext,     \* manager context summary: the composed text and the text returned
    tabHistory,         \* admin Mini App: state.tabHistory
    activeTab,          \* admin Mini App: the tab whose panel carries the class active
    handoff             \* history: host calls and payload of the last manager hand-off

vars == <<view, criteria, results, loading, error, chatInput, chatMessages,
          chatLoading, chatProgressText, chatElapsedSec, chatProgressTimer,
          liveTimers, timerSeq, mainButtonHandler, dom, resultSummary, askReqs, catalogReqs,
          asksStarted, asksCompleted, lastOp, errIn, errOut, askIn, askOut,
          coachmarkStep, storage, host, mainButton, handoff, matchQuality,
          managerRecommended, managerMessage, managerCallToAction, lastManagerOffer,
          branding, user, bootReqs, linkCall, managerContext, tabHistory, activeTab>>

\* the manager offer and the fields that mirror it
offerVars == <<matchQuality, managerRecommended, managerMessage, managerCallToAction,
               lastManagerOffer>>

appVars == <<view, criteria, results, loading, error, chatInput, chatMessages,
             chatLoading, chatProgressText, chatElapsedSec, chatProgressTimer,
             liveTimers, timerSeq, mainButtonHandler, dom, resultSummary, askReqs,
             catalogReqs, asksStarted, asksCompleted, lastOp, coachmarkStep, mainButton,
             matchQuality, managerRecommended, managerMessage, managerCallToAction,
             lastManagerOffer>>

appVarsButLastOp ==
    <<view, criteria, results, loading, error, chatInput, chatMessages,
      chatLoading, chatProgressText, chatElapsedSec, chatProgressTimer,
      liveTimers, timerSeq, mainButtonHandler, dom, resultSummary, askReqs, catalogReqs,
      asksStarted, asksCompleted, coachmarkStep, mainButton,
      matchQuality, managerRecommended, managerMessage, managerCallToAction,
      lastManagerOffer>>

errVars == <<errIn, errOut>>

\* the boot fetches and what they write
bootVars == <<branding, user, bootReqs>>

\* the admin Mini App
adminVars == <<tabHistory, activeTab>>

\* what the handlers of a session leave alone: the boot fetches once they
\* are over, the functions applied on their own, the admin Mini App
sideVars == <<bootVars, linkCall, managerContext, adminVars>>

askTextVars == <<askIn, askOut>>

\* what no handler of the main session writes
envVars == <<errVars, askTextVars, sideVars, storage, host, handoff>>

(***************************************************************************)
(* Bounds of the model.                                                    *)
(***************************************************************************)
MaxAsks == 2        \* asks the user starts in one session
MaxTicks == 3       \* ticks of the progress interval during one ask
MaxStale == 2       \* stale main-button subscriptions a faulty host accumulates
MaxLongTicks == 7   \* ticks of the progress interval during one slow ask
MaxSideAsks == 1     \* asks started in the specifications of the onboarding and of the offers
MaxSideTicks == 1    \* ticks of the progress interval during an ask of a session with hand-offs
MaxHistory == 7      \* entries the tab history of the admin Mini App grows to
MaxOverflow == 10   \* characters by which a composed manager context misses or exceeds the limit

(***************************************************************************)
(* Values.                                                                 *)
(***************************************************************************)
Null == "null"
NoGrade == 0
NoTimer == 0
NoHandler == "none"

AppView == {"home", "picker", "results", "chat"}

GradeOptions == {9}
GOAL_OPTIONS == {"ege"}
SUBJECT_OPTIONS == {"math"}
FORMAT_OPTIONS == {"online"}

CHAT_PROMPTS == {<<"p">>}

CHAT_PROGRESS_STEPS == <<"context", "answer", "recommendations">>

\* what the user types into the textarea: nothing, blanks only, text, padded text
InputStrings == {<<>>, <<" ">>, <<"p">>, <<" ", "p", " ">>}

(***************************************************************************)
(* String.prototype.trim on a sequence of characters.                      *)
(***************************************************************************)
RECURSIVE TrimStart(_)
TrimStart(s) ==
    IF s = <<>> THEN s
    ELSE IF Head(s) = " " THEN TrimStart(Tail(s)) ELSE s

RECURSIVE TrimEnd(_)
TrimEnd(s) ==
    IF s = <<>> THEN s
    ELSE IF s[Len(s)] = " " THEN TrimEnd(SubSeq(s, 1, Len(s) - 1)) ELSE s

Trim(s) == TrimEnd(TrimStart(s))

Min(a, b) == IF a < b THEN a ELSE b

(***************************************************************************)
(* Pure helpers of the main module.                                        *)
(***************************************************************************)
\* completeness that forgets the last step
isCriteriaCompleteWithoutFormat(c) ==
    /\ c.grade # NoGrade
    /\ c.goal # Null
    /\ c.subject # Null

isCriteriaComplete(c) ==
    /\ c.grade # NoGrade
    /\ c.goal # Null
    /\ c.subject # Null
    /\ c.format # Null

\* index rounded to the nearest caption instead of floored
ProgressIndexRounded(elapsed) == Min(Len(CHAT_PROGRESS_STEPS) - 1, (elapsed + 1) \div 3)

ProgressIndex(elapsed) == Min(Len(CHAT_PROGRESS_STEPS) - 1, elapsed \div 3)

\* back from chat that ignores whether results are present
BackTargetIgnoringResults(v, res) ==
    IF v = "chat" THEN "picker"
    ELSE IF v = "results" THEN "picker"
    ELSE "home"

BackTarget(v, res) ==
    IF v = "chat" THEN (IF Len(res) > 0 THEN "results" ELSE "picker")
    ELSE IF v = "results" THEN "picker"
    ELSE "home"

JsNullItem == [isNull |-> TRUE, id |-> "", title |-> "", url |-> "", why_match |-> ""]

Recommended(id, why) == [isNull |-> FALSE, id |-> id, title |-> id, url |-> id, why_match |-> why]

toCatalogItem(item) ==
    [id |-> item.id, title |-> item.title, url |-> item.url, usp |-> <<>>,
     price_text |-> "price_by_manager", next_start_text |-> "start_by_schedule",
     why_match |-> IF item.why_match = "" THEN "matched_by_request" ELSE item.why_match]

CatalogItem(id) ==
    [id |-> id, title |-> id, url |-> id, usp |-> <<"usp">>,
     price_text |-> "price", next_start_text |-> "start", why_match |-> "why"]

MapItems(items) == [i \in 1..Len(items) |-> toCatalogItem(items[i])]

\* index of the first entry whose conversion throws (a null entry), 0 if none
FirstBad(items) ==
    IF \E i \in 1..Len(items) : items[i].isNull
    THEN CHOOSE i \in 1..Len(items) :
            /\ items[i].isNull
            /\ \A j \in 1..(i - 1) : ~items[j].isNull
    ELSE 0

(***************************************************************************)
(* Responses the backend can produce.                                      *)
(***************************************************************************)
\* an absent optional member of a body is the empty string (false for a
\* boolean): the code reads each of them with || or Boolean()
CatalogBody(kind, items) ==
    [kind |-> kind, items |-> items, match_quality |-> "", manager_recommended |-> FALSE,
     manager_message |-> "", manager_call_to_action |-> ""]

\* payload.manager_offer: absent, or an object
NoManagerOffer == [present |-> FALSE, recommended |-> FALSE, message |-> "", call_to_action |-> ""]

AskBody(kind, products) ==
    [kind |-> kind, products |-> products, match_quality |-> "", manager_offer |-> NoManagerOffer]

\* a backend that grades no match as strong or limited and offers no manager
CatalogResponses ==
    {CatalogBody("network_error", <<>>),
     CatalogBody("non_2xx", <<>>),
     CatalogBody("success", <<>>),
     [CatalogBody("success", <<CatalogItem("A"), CatalogItem("B")>>)
         EXCEPT !.match_quality = "none"]}

AskResponses ==
    {AskBody("network_error", <<>>),
     AskBody("non_2xx", <<>>),
     AskBody("ok_false", <<>>),
     AskBody("success", <<>>),
     AskBody("success", <<Recommended("P", "")>>),
     AskBody("success", <<JsNullItem>>)}


(***************************************************************************)
(* The environment: localStorage and the host.                             *)
(***************************************************************************)
\* flag: the coachmark key holds "1"; getThrows, setThrows: getItem, setItem throw
Storages == [flag : BOOLEAN, getThrows : BOOLEAN, setThrows : BOOLEAN]

ReturningUser == [flag |-> TRUE, getThrows |-> FALSE, setThrows |-> FALSE]

\* which WebApp members exist (window.open always exists), and whether
\* MainButton.offClick throws
Hosts == [openTelegramLink : BOOLEAN, sendData : BOOLEAN, close : BOOLEAN,
          offClickThrows : BOOLEAN]

TelegramHost == [openTelegramLink |-> TRUE, sendData |-> TRUE, close |-> TRUE,
                 offClickThrows |-> FALSE]

(***************************************************************************)
(* Onboarding coachmarks.                                                  *)
(***************************************************************************)
shouldShowCoachmarks(st) == IF st.getThrows THEN FALSE ELSE ~st.flag

updateCoachmarkProgress(step, crit) ==
    IF step < 0 THEN step
    ELSE LET afterGrade == IF step = 0 /\ crit.grade # NoGrade THEN 1 ELSE step
         IN  IF afterGrade = 1 /\ crit.goal # Null THEN 2 ELSE afterGrade

(***************************************************************************)
(* render(): the page and the host main button after a handler.            *)
(***************************************************************************)
\* submit button that is not re-disabled while a search is in flight
RenderDomSubmitNotRedisabled(v, crit, ld, cl, inp) ==
    [view |-> v,
     submitDisabled |-> ~isCriteriaComplete(crit),
     sendDisabled |-> cl \/ Len(Trim(inp)) = 0,
     textareaDisabled |-> cl]

RenderDom(v, crit, ld, cl, inp) ==
    [view |-> v,
     submitDisabled |-> (~isCriteriaComplete(crit)) \/ ld,
     sendDisabled |-> cl \/ Len(Trim(inp)) = 0,
     textareaDisabled |-> cl]

syncTelegramMainButton(v) == IF v = "home" THEN NoHandler ELSE v

\* clearTelegramMainButtonHandler: the subscriptions the host may hold after
\* offClick(mainButtonHandler); the handler attached last is mainButtonHandler.
\* An offClick that throws has either removed the handler or not.
clearTelegramMainButtonHandler ==
    LET subscribed == mainButton.handlers
        removed == SubSeq(subscribed, 1, Len(subscribed) - 1)
    IN  IF mainButtonHandler = NoHandler THEN {subscribed}
        ELSE IF ~host.offClickThrows THEN {removed}
        ELSE {removed} \cup (IF Len(subscribed) <= MaxStale THEN {subscribed} ELSE {})

\* onClick(mainButtonHandler) and show(), or hide() on the home view
SyncedMainButton(kept, v) ==
    [visible |-> v # "home",
     handlers |-> IF v = "home" THEN kept ELSE Append(kept, v)]

\* summary card that names the first result whenever there is one
createResultSummaryCardAlwaysNaming(v, quality, res, message) ==
    IF v # "results" THEN [kind |-> "absent", text |-> ""]
    ELSE IF Len(res) > 0 THEN [kind |-> "strong_match", text |-> res[1].title]
    ELSE [kind |-> "no_ideal_match", text |-> ""]

\* createResultSummaryCard, drawn by createResultsView only
createResultSummaryCard(v, quality, res, message) ==
    IF v # "results" THEN [kind |-> "absent", text |-> ""]
    ELSE IF quality = "strong" /\ Len(res) > 0
    THEN [kind |-> "strong_match", text |-> res[1].title]
    ELSE IF Len(res) > 0
    THEN [kind |-> "manager_message",
          text |-> IF message # "" THEN message ELSE "good_options"]
    ELSE [kind |-> "no_ideal_match", text |-> ""]

render ==
    /\ dom' = RenderDom(view', criteria', loading', chatLoading', chatInput')
    /\ resultSummary' = createResultSummaryCard(view', matchQuality', results', managerMessage')
    /\ mainButtonHandler' = syncTelegramMainButton(view')
    /\ \E kept \in clearTelegramMainButtonHandler :
           mainButton' = SyncedMainButton(kept, view')

\* from: the view the handler ran in, kept for the two handlers that derive
\* the next view (back navigation, catalog completion)
\* resp: the response a continuation consumed
NoResp == [kind |-> "none"]

MarkDone(op, resp) ==
    lastOp' = [op |-> op,
               from |-> IF op \in {"goBack", "catalogDone"} THEN view ELSE "-",
               resp |-> resp]

Mark(op) == MarkDone(op, NoResp)

(***************************************************************************)
(* Initial state: the module-level initialisers and the first render().    *)
(***************************************************************************)
InitCriteria == [brand |-> "kmipt", grade |-> NoGrade, goal |-> Null, subject |-> Null, format |-> Null]

\* state.lastManagerOffer.  Its only reader is lastManagerOffer?.recommended
\* (and message, callToAction once that is true), so null is the offer that
\* is not recommended.
ManagerOffer(recommended, message, callToAction) ==
    [recommended |-> recommended, message |-> message, callToAction |-> callToAction]

NoOffer == ManagerOffer(FALSE, "", "")

\* buildMiniAppPayload returned null / no hand-off has run
NoPayload == [flow |-> "none", criteria |-> InitCriteria, top |-> <<>>, note |-> "none"]

NoHandoff == [calls |-> <<>>, built |-> "none", payload |-> NoPayload, flowError |-> Null]

InitErr ==
    /\ errIn = [status |-> 0]
    /\ errOut = [done |-> FALSE]

InitAskText ==
    /\ askIn = [kind |-> "none"]
    /\ askOut = [done |-> FALSE]

\* brandName ... userMiniappUrl of the state initialiser
InitBranding ==
    [brandName |-> <<"brand">>, advisorName |-> <<"advisor">>, managerLabel |-> <<"manager">>,
     managerChatUrl |-> <<>>, userMiniappUrl |-> <<"/app">>]

\* state.user: null, or a TelegramWebAppUser
NoUser == [isNull |-> TRUE, first_name |-> "", username |-> "", id |-> 0]

\* both boot fetches are over, neither changed the state (the backend was
\* not reachable), and the render() after them has run
InitBootOver ==
    /\ branding = InitBranding
    /\ user = NoUser
    /\ bootReqs = [meta |-> "done", whoami |-> "done", rendered |-> TRUE]

NoLinkCall == [done |-> FALSE]

NoManagerContext == [done |-> FALSE]

\* the admin Mini App as loaded: the history holds the leads tab
InitAdmin ==
    /\ tabHistory = <<"leads">>
    /\ activeTab = "leads"

InitSide ==
    /\ InitBootOver
    /\ linkCall = NoLinkCall
    /\ managerContext = NoManagerContext
    /\ InitAdmin

\* the module-level initialisers in the environment (st, h), with the
\* criteria and results of the session
InitSession(st, h, crit, res) ==
    /\ storage = st
    /\ host = h
    /\ handoff = NoHandoff
    /\ coachmarkStep = (IF shouldShowCoachmarks(st) THEN 0 ELSE -1)
    /\ mainButton = SyncedMainButton(<<>>, "home")
    /\ view = "home"
    /\ criteria = crit
    /\ results = res
    /\ loading = FALSE
    /\ error = Null
    /\ chatInput = <<>>
    /\ chatMessages = <<>>
    /\ chatLoading = FALSE
    /\ chatProgressText = CHAT_PROGRESS_STEPS[1]
    /\ chatElapsedSec = 0
    /\ chatProgressTimer = NoTimer
    /\ liveTimers = {}
    /\ timerSeq = 0
    /\ mainButtonHandler = syncTelegramMainButton("home")
    /\ dom = RenderDom("home", crit, FALSE, FALSE, <<>>)
    /\ resultSummary = createResultSummaryCard("home", "none", res, "")
    /\ askReqs = <<>>
    /\ catalogReqs = <<>>
    /\ asksStarted = 0
    /\ asksCompleted = 0
    /\ lastOp = [op |-> "boot", from |-> "-", resp |-> NoResp]
    /\ matchQuality = "none"
    /\ managerRecommended = FALSE
    /\ managerMessage = ""
    /\ managerCallToAction = ""
    /\ lastManagerOffer = NoOffer

\* a user who has finished the onboarding, in a Telegram client that
\* provides every capability and whose calls return
InitApp == InitSession(ReturningUser, TelegramHost, InitCriteria, <<>>)

Init == InitApp /\ InitErr /\ InitAskText /\ InitSide

(***************************************************************************)
(* Navigation.                                                             *)
(***************************************************************************)
navigateTo(v) ==
    /\ error' = Null
    /\ view' = v
    /\ UNCHANGED <<criteria, results, loading, chatInput, chatMessages, chatLoading,
                   chatProgressText, chatElapsedSec, chatProgressTimer, liveTimers,
                   timerSeq, askReqs, catalogReqs, asksStarted, asksCompleted,
                   coachmarkStep, offerVars>>
    /\ render

\* top-nav tabs (present in every view), home cards, dock and in-view shortcuts
NavigateTo(v) ==
    /\ v \in {"home", "picker", "chat"}
    /\ Mark("navigateTo")
    /\ navigateTo(v)
    /\ UNCHANGED envVars

\* back navigation that keeps the error on the page
goBackKeepingError ==
    /\ view' = BackTarget(view, results)
    /\ UNCHANGED <<criteria, results, loading, error, chatInput, chatMessages, chatLoading,
                   chatProgressText, chatElapsedSec, chatProgressTimer, liveTimers,
                   timerSeq, askReqs, catalogReqs, asksStarted, asksCompleted,
                   coachmarkStep, offerVars>>
    /\ render

goBack ==
    /\ error' = Null
    /\ view' = BackTarget(view, results)
    /\ UNCHANGED <<criteria, results, loading, chatInput, chatMessages, chatLoading,
                   chatProgressText, chatElapsedSec, chatProgressTimer, liveTimers,
                   timerSeq, askReqs, catalogReqs, asksStarted, asksCompleted,
                   coachmarkStep, offerVars>>
    /\ render

\* goBack() is total over the four views.  The back button is rendered only
\* when canGoBack(); at home goBack() does what navigateTo("home") does.
GoBack ==
    /\ Mark("goBack")
    /\ goBack
    /\ UNCHANGED envVars

(***************************************************************************)
(* Criteria picker: a chip of one of the four groups (picker view only).   *)
(***************************************************************************)
CriteriaFields == {"grade", "goal", "subject", "format"}

OptionsOf(field) ==
    IF field = "grade" THEN GradeOptions
    ELSE IF field = "goal" THEN GOAL_OPTIONS
    ELSE IF field = "subject" THEN SUBJECT_OPTIONS
    ELSE FORMAT_OPTIONS

\* the value of a field nothing was chosen for
Unset(field) == IF field = "grade" THEN NoGrade ELSE Null

\* chip that unsets the field when the value it holds is clicked again
SelectCriterionToggling(field, value) ==
    /\ dom.view = "picker"
    /\ Mark("select")
    /\ error' = Null
    /\ criteria' = [criteria EXCEPT ![field] = IF @ = value THEN Unset(field) ELSE value]
    /\ coachmarkStep' = updateCoachmarkProgress(coachmarkStep, [criteria EXCEPT ![field] = value])
    /\ UNCHANGED <<view, results, loading, chatInput, chatMessages, chatLoading,
                   chatProgressText, chatElapsedSec, chatProgressTimer, liveTimers,
                   timerSeq, askReqs, catalogReqs, asksStarted, asksCompleted, offerVars>>
    /\ render
    /\ UNCHANGED envVars

SelectCriterion(field, value) ==
    /\ dom.view = "picker"
    /\ Mark("select")
    /\ error' = Null
    /\ criteria' = [criteria EXCEPT ![field] = value]
    /\ coachmarkStep' = updateCoachmarkProgress(coachmarkStep, [criteria EXCEPT ![field] = value])
    /\ UNCHANGED <<view, results, loading, chatInput, chatMessages, chatLoading,
                   chatProgressText, chatElapsedSec, chatProgressTimer, liveTimers,
                   timerSeq, askReqs, catalogReqs, asksStarted, asksCompleted, offerVars>>
    /\ render
    /\ UNCHANGED envVars

(***************************************************************************)
(* Coachmark buttons (the coachmark is on the page in the picker and the   *)
(* results view while coachmarkStep >= 0).                                 *)
(***************************************************************************)
CoachmarkShown == coachmarkStep >= 0 /\ dom.view \in {"picker", "results"}

\* dismissal that is not persisted
markCoachmarksCompleteSessionOnly ==
    /\ UNCHANGED storage
    /\ coachmarkStep' = -1

markCoachmarksComplete ==
    /\ storage' = (IF storage.setThrows THEN storage ELSE [storage EXCEPT !.flag = TRUE])
    /\ coachmarkStep' = -1

\* "hide"
CoachmarkSkip ==
    /\ CoachmarkShown
    /\ Mark("coachmarkSkip")
    /\ markCoachmarksComplete
    /\ UNCHANGED <<view, criteria, results, loading, error, chatInput, chatMessages,
                   chatLoading, chatProgressText, chatElapsedSec, chatProgressTimer,
                   liveTimers, timerSeq, askReqs, catalogReqs, asksStarted, asksCompleted,
                   offerVars>>
    /\ render
    /\ UNCHANGED <<errVars, askTextVars, sideVars, host, handoff>>

\* "next" / "got it"
CoachmarkNext ==
    /\ CoachmarkShown
    /\ Mark("coachmarkNext")
    /\ IF coachmarkStep >= 2
       THEN markCoachmarksComplete
       ELSE /\ coachmarkStep' = coachmarkStep + 1
            /\ UNCHANGED storage
    /\ UNCHANGED <<view, criteria, results, loading, error, chatInput, chatMessages,
                   chatLoading, chatProgressText, chatElapsedSec, chatProgressTimer,
                   liveTimers, timerSeq, askReqs, catalogReqs, asksStarted, asksCompleted,
                   offerVars>>
    /\ render
    /\ UNCHANGED <<errVars, askTextVars, sideVars, host, handoff>>

(***************************************************************************)
(* Catalog search: loadCatalogResults up to its await, the transport, and  *)
(* the continuation after the await.                                       *)
(***************************************************************************)
loadCatalogResults ==
    /\ loading' = TRUE
    /\ error' = Null
    /\ catalogReqs' = Append(catalogReqs, [params |-> criteria, settled |-> FALSE])
    /\ UNCHANGED <<view, criteria, results, chatInput, chatMessages, chatLoading,
                   chatProgressText, chatElapsedSec, chatProgressTimer, liveTimers,
                   timerSeq, askReqs, asksStarted, asksCompleted,
                   coachmarkStep, offerVars>>
    /\ render

\* the in-page "get selection" button; a disabled button delivers no click
ClickSubmit ==
    /\ dom.view = "picker"
    /\ ~dom.submitDisabled
    /\ Mark("clickSubmit")
    /\ loadCatalogResults
    /\ UNCHANGED envVars

\* the transport settles (resolves or rejects); nothing bounds when
CatalogSettle(i) ==
    /\ i \in 1..Len(catalogReqs)
    /\ ~catalogReqs[i].settled
    /\ catalogReqs' = [catalogReqs EXCEPT ![i].settled = TRUE]
    /\ Mark("catalogSettle")
    /\ UNCHANGED <<view, criteria, results, loading, error, chatInput, chatMessages,
                   chatLoading, chatProgressText, chatElapsedSec, chatProgressTimer,
                   liveTimers, timerSeq, mainButtonHandler, dom, resultSummary, askReqs,
                   asksStarted, asksCompleted,
                   coachmarkStep, mainButton, offerVars>>
    /\ UNCHANGED envVars

\* completion that issues the request once more
RemoveAtResending(seq, i) ==
    Append(SubSeq(seq, 1, i - 1) \o SubSeq(seq, i + 1, Len(seq)), [seq[i] EXCEPT !.settled = FALSE])

RemoveAt(seq, i) == SubSeq(seq, 1, i - 1) \o SubSeq(seq, i + 1, Len(seq))

\* completion that drops a response when the user has left the picker
CatalogApplyOnlyInPicker(resp) ==
    IF resp.kind = "success"
    THEN IF view = "picker"
         THEN /\ results' = resp.items
              /\ view' = "results"
              /\ UNCHANGED error
         ELSE UNCHANGED <<results, view, error>>
    ELSE /\ error' = "catalog_failed"
         /\ UNCHANGED <<results, view>>

\* catch that also empties the list shown
CatalogApplyClearingResults(resp) ==
    IF resp.kind = "success"
    THEN /\ results' = resp.items
         /\ view' = "results"
         /\ UNCHANGED error
    ELSE /\ error' = "catalog_failed"
         /\ results' = <<>>
         /\ UNCHANGED view

CatalogApply(resp) ==
    IF resp.kind = "success"
    THEN /\ results' = resp.items
         /\ view' = "results"
         /\ UNCHANGED error
    ELSE /\ error' = "catalog_failed"
         /\ UNCHANGED <<results, view>>

\* try block of loadCatalogResults: match quality, the mirrored manager
\* fields and the offer built from them
CatalogOffer(resp) ==
    IF resp.kind = "success"
    THEN /\ matchQuality' = (IF resp.match_quality # "" THEN resp.match_quality
                             ELSE IF Len(resp.items) > 0 THEN "limited" ELSE "none")
         /\ managerRecommended' = resp.manager_recommended
         /\ managerMessage' = resp.manager_message
         /\ managerCallToAction' = resp.manager_call_to_action
         /\ lastManagerOffer' = ManagerOffer(resp.manager_recommended, resp.manager_message,
                                             resp.manager_call_to_action)
    ELSE UNCHANGED offerVars

\* completion that takes the coachmark one step back
CatalogCoachmarkStepBack(resp, step) ==
    IF resp.kind = "success" /\ step >= 1 THEN 1 ELSE step

\* if (state.coachmarkStep >= 2) state.coachmarkStep = 2, on the success path
CatalogCoachmarkStep(resp, step) ==
    IF resp.kind = "success" /\ step >= 2 THEN 2 ELSE step

\* flag cleared on the success path only
CatalogFinallyOnSuccessOnly == loading' = (error' = "catalog_failed")

\* finally { state.loading = false; render(); }
CatalogFinally == loading' = FALSE

CatalogContinue(i, resp) ==
    /\ i \in 1..Len(catalogReqs)
    /\ catalogReqs[i].settled
    /\ MarkDone("catalogDone", resp)
    /\ CatalogApply(resp)
    /\ CatalogOffer(resp)
    /\ CatalogFinally
    /\ catalogReqs' = RemoveAt(catalogReqs, i)
    /\ coachmarkStep' = CatalogCoachmarkStep(resp, coachmarkStep)
    /\ UNCHANGED <<criteria, chatInput, chatMessages, chatLoading, chatProgressText,
                   chatElapsedSec, chatProgressTimer, liveTimers, timerSeq, askReqs,
                   asksStarted, asksCompleted>>
    /\ render
    /\ UNCHANGED envVars

(***************************************************************************)
(* Progress ticker.                                                        *)
(***************************************************************************)
\* clear that forgets the handle and leaves the interval running
clearChatProgressTimerHandleOnly(live, handle) == live

clearChatProgressTimer(live, handle) == IF handle # NoTimer THEN live \ {handle} ELSE live

\* start that resets counter and caption but registers no interval
startChatProgressWithoutInterval ==
    /\ chatElapsedSec' = 0
    /\ chatProgressText' = CHAT_PROGRESS_STEPS[1]
    /\ chatProgressTimer' = NoTimer
    /\ liveTimers' = clearChatProgressTimer(liveTimers, chatProgressTimer)
    /\ UNCHANGED timerSeq

startChatProgress ==
    /\ chatElapsedSec' = 0
    /\ chatProgressText' = CHAT_PROGRESS_STEPS[1]
    /\ timerSeq' = timerSeq + 1
    /\ chatProgressTimer' = timerSeq + 1
    /\ liveTimers' = clearChatProgressTimer(liveTimers, chatProgressTimer) \cup {timerSeq + 1}

\* stop that clears the interval but keeps counter and caption
stopChatProgressNoReset ==
    /\ liveTimers' = clearChatProgressTimer(liveTimers, chatProgressTimer)
    /\ chatProgressTimer' = NoTimer
    /\ UNCHANGED <<chatElapsedSec, chatProgressText, timerSeq>>

stopChatProgress ==
    /\ liveTimers' = clearChatProgressTimer(liveTimers, chatProgressTimer)
    /\ chatProgressTimer' = NoTimer
    /\ chatElapsedSec' = 0
    /\ chatProgressText' = CHAT_PROGRESS_STEPS[1]
    /\ UNCHANGED timerSeq

\* the interval callback of a live interval
progressTick(t) ==
    /\ t \in liveTimers
    /\ Mark("tick")
    /\ chatElapsedSec' = chatElapsedSec + 1
    /\ chatProgressText' = CHAT_PROGRESS_STEPS[ProgressIndex(chatElapsedSec + 1) + 1]
    /\ UNCHANGED <<view, criteria, results, loading, error, chatInput, chatMessages,
                   chatLoading, chatProgressTimer, liveTimers, timerSeq, askReqs,
                   catalogReqs, asksStarted, asksCompleted,
                   coachmarkStep, offerVars>>
    /\ render
    /\ UNCHANGED envVars

\* the callback within the number of ticks one ask of the session sees
Tick(t) == chatElapsedSec < MaxTicks /\ progressTick(t)

\* the callback of a slow ask
LongTick(t) == chatElapsedSec < MaxLongTicks /\ progressTick(t)

(***************************************************************************)
(* Assistant ask: askAssistantQuestion up to its await.  input is the      *)
(* value state.chatInput has when the function is entered.                 *)
(***************************************************************************)
AskQuestion(questionOverride, input) == Trim(IF questionOverride # <<>> THEN questionOverride ELSE input)

\* guard without the re-entrancy check
AskRejectedBlankOnly(questionOverride, input) == AskQuestion(questionOverride, input) = <<>>

\* guard that also rejects while a catalog search is in flight
AskRejectedWhileSearching(questionOverride, input) ==
    AskQuestion(questionOverride, input) = <<>> \/ chatLoading \/ loading

AskRejected(questionOverride, input) == AskQuestion(questionOverride, input) = <<>> \/ chatLoading

askAssistantQuestion(questionOverride, input) ==
    IF AskRejected(questionOverride, input)
    THEN /\ chatInput' = input
         /\ UNCHANGED <<view, criteria, results, loading, error, chatMessages, chatLoading,
                        chatProgressText, chatElapsedSec, chatProgressTimer, liveTimers,
                        timerSeq, askReqs, catalogReqs, asksStarted, asksCompleted,
                   coachmarkStep, offerVars>>
         /\ render
    ELSE /\ asksStarted < MaxAsks
         /\ error' = Null
         /\ chatMessages' = Append(chatMessages,
                [role |-> "user", text |-> AskQuestion(questionOverride, input)])
         /\ chatInput' = <<>>
         /\ chatLoading' = TRUE
         /\ startChatProgress
         /\ view' = "chat"
         /\ askReqs' = Append(askReqs,
                [question |-> AskQuestion(questionOverride, input), settled |-> FALSE])
         /\ asksStarted' = asksStarted + 1
         /\ UNCHANGED <<criteria, results, loading, catalogReqs, asksCompleted,
                   coachmarkStep, offerVars>>
         /\ render

\* textarea input event (the textarea is disabled while an ask is in flight)
TypeInput(s) ==
    /\ dom.view = "chat"
    /\ ~dom.textareaDisabled
    /\ s \in InputStrings
    /\ Mark("typeInput")
    /\ chatInput' = s
    /\ UNCHANGED <<view, criteria, results, loading, error, chatMessages, chatLoading,
                   chatProgressText, chatElapsedSec, chatProgressTimer, liveTimers,
                   timerSeq, askReqs, catalogReqs, asksStarted, asksCompleted,
                   coachmarkStep, offerVars>>
    /\ render
    /\ UNCHANGED envVars

\* send button of the chat composer
ClickSend ==
    /\ dom.view = "chat"
    /\ ~dom.sendDisabled
    /\ Mark("clickSend")
    /\ askAssistantQuestion(<<>>, chatInput)
    /\ UNCHANGED envVars

\* primary button of the bottom dock in the chat view
ClickDockSend ==
    /\ dom.view = "chat"
    /\ ~dom.sendDisabled
    /\ Mark("clickDockSend")
    /\ askAssistantQuestion(<<>>, chatInput)
    /\ UNCHANGED envVars

\* quick-prompt chip: writes the prompt into the input, renders, then asks
ClickQuickPrompt(prompt) ==
    /\ dom.view = "chat"
    /\ prompt \in CHAT_PROMPTS
    /\ Mark("clickQuickPrompt")
    /\ askAssistantQuestion(prompt, prompt)
    /\ UNCHANGED envVars

(***************************************************************************)
(* Host main button: the host calls the subscribed handler; the handler    *)
(* re-checks the state at the time it runs.                                *)
(***************************************************************************)
MainButtonClick ==
    /\ mainButtonHandler \in {"picker", "chat"}
    /\ Mark("mainButton")
    /\ IF mainButtonHandler = "picker"
       THEN IF isCriteriaComplete(criteria) /\ ~loading
            THEN loadCatalogResults
            ELSE UNCHANGED appVarsButLastOp
       ELSE IF ~chatLoading /\ Len(Trim(chatInput)) > 0
            THEN askAssistantQuestion(<<>>, chatInput)
            ELSE UNCHANGED appVarsButLastOp
    /\ UNCHANGED envVars

(***************************************************************************)
(* Assistant ask: the transport and the continuation after the await.      *)
(***************************************************************************)
AskSettle(i) ==
    /\ i \in 1..Len(askReqs)
    /\ ~askReqs[i].settled
    /\ askReqs' = [askReqs EXCEPT ![i].settled = TRUE]
    /\ Mark("askSettle")
    /\ UNCHANGED <<view, criteria, results, loading, error, chatInput, chatMessages,
                   chatLoading, chatProgressText, chatElapsedSec, chatProgressTimer,
                   liveTimers, timerSeq, mainButtonHandler, dom, resultSummary, catalogReqs,
                   asksStarted, asksCompleted,
                   coachmarkStep, mainButton, offerVars>>
    /\ UNCHANGED envVars

AnswerMessage == [role |-> "assistant", text |-> <<"answer">>]
ApologyMessage == [role |-> "assistant", text |-> <<"apology">>]

AskErrorText(resp) == "ask_failed"

\* catch that writes the apology over the last entry of the transcript
AskApplyOverwritingLast(resp) ==
    IF resp.kind # "success"
    THEN /\ error' = AskErrorText(resp)
         /\ chatMessages' = Append(SubSeq(chatMessages, 1, Len(chatMessages) - 1),
                                   ApologyMessage)
         /\ UNCHANGED results
    ELSE IF Len(resp.products) > 0 /\ FirstBad(resp.products) # 0
    THEN /\ error' = AskErrorText(resp)
         /\ chatMessages' = Append(Append(chatMessages, AnswerMessage), ApologyMessage)
         /\ UNCHANGED results
    ELSE /\ chatMessages' = Append(chatMessages, AnswerMessage)
         /\ results' = IF Len(resp.products) > 0 THEN MapItems(resp.products) ELSE results
         /\ UNCHANGED error

\* try block that adds the recommended products to the list shown
AskApplyAppendingProducts(resp) ==
    IF resp.kind # "success"
    THEN /\ error' = AskErrorText(resp)
         /\ chatMessages' = Append(chatMessages, ApologyMessage)
         /\ UNCHANGED results
    ELSE IF Len(resp.products) > 0 /\ FirstBad(resp.products) # 0
    THEN /\ error' = AskErrorText(resp)
         /\ chatMessages' = Append(Append(chatMessages, AnswerMessage), ApologyMessage)
         /\ UNCHANGED results
    ELSE /\ chatMessages' = Append(chatMessages, AnswerMessage)
         /\ results' = results \o MapItems(resp.products)
         /\ UNCHANGED error

\* try / catch of askAssistantQuestion after the await
AskApply(resp) ==
    IF resp.kind # "success"
    THEN \* thrown before the answer is appended
         /\ error' = AskErrorText(resp)
         /\ chatMessages' = Append(chatMessages, ApologyMessage)
         /\ UNCHANGED results
    ELSE IF Len(resp.products) > 0 /\ FirstBad(resp.products) # 0
    THEN \* answer appended, then products.map(toCatalogItem) throws
         /\ error' = AskErrorText(resp)
         /\ chatMessages' = Append(Append(chatMessages, AnswerMessage), ApologyMessage)
         /\ UNCHANGED results
    ELSE /\ chatMessages' = Append(chatMessages, AnswerMessage)
         /\ results' = IF Len(resp.products) > 0 THEN MapItems(resp.products) ELSE results
         /\ UNCHANGED error

\* if (payload.manager_offer) { ... }: reached when the products were mapped
AskOffer(resp) ==
    IF resp.kind = "success" /\ FirstBad(resp.products) = 0 /\ resp.manager_offer.present
    THEN /\ lastManagerOffer' = ManagerOffer(resp.manager_offer.recommended,
                                             resp.manager_offer.message,
                                             resp.manager_offer.call_to_action)
         /\ matchQuality' = (IF resp.match_quality # "" THEN resp.match_quality
                             ELSE matchQuality)
         /\ managerRecommended' = resp.manager_offer.recommended
         /\ managerMessage' = (IF resp.manager_offer.message # ""
                               THEN resp.manager_offer.message ELSE managerMessage)
         /\ managerCallToAction' = (IF resp.manager_offer.call_to_action # ""
                                    THEN resp.manager_offer.call_to_action
                                    ELSE managerCallToAction)
    ELSE UNCHANGED offerVars

\* finally { stopChatProgress(); state.chatLoading = false; render(); }
AskFinally ==
    /\ stopChatProgress
    /\ chatLoading' = FALSE

AskContinue(i, resp) ==
    /\ i \in 1..Len(askReqs)
    /\ askReqs[i].settled
    /\ MarkDone("askDone", resp)
    /\ AskApply(resp)
    /\ AskOffer(resp)
    /\ AskFinally
    /\ askReqs' = RemoveAt(askReqs, i)
    /\ asksCompleted' = asksCompleted + 1
    /\ UNCHANGED <<view, criteria, loading, chatInput, catalogReqs, asksStarted,
                   coachmarkStep>>
    /\ render
    /\ UNCHANGED envVars

(***************************************************************************)
(* Manager hand-off: openManagerChat tries the direct links, then the      *)
(* structured submission.  A text is named by a string; its length in      *)
(* UTF-16 code units (String.length) is tabulated.                         *)
(***************************************************************************)
PayloadLimit == 4096

consultationNote == "consultation_note"

\* the texts a payload of the model is made of
PayloadTexts ==
    {"LongLatin", "LongCyrillic", "EdgeLatin", consultationNote, "consultation_request",
     "kmipt", "ege", "math", "online", "A", "B", "P"}

UnitsOf(text) ==
    CASE text = "LongLatin" -> 1200
      [] text = "LongCyrillic" -> 1200
      [] text = "EdgeLatin" -> 1288
      [] text = consultationNote -> 70
      [] text = "consultation_request" -> 20
      [] text = "kmipt" -> 5
      [] text = "ege" -> 3
      [] text = "math" -> 4
      [] text = "online" -> 6
      [] OTHER -> 1

Utf16Units == [text \in PayloadTexts |-> UnitsOf(text)]

\* size of JSON.stringify(payload) under a measure of its texts
JsonStringSize(text, measure) == measure[text] + 2

JsonCriteriaSize(c, measure) ==
    48 + JsonStringSize(c.brand, measure)
       + (IF c.grade = NoGrade THEN 4 ELSE IF c.grade < 10 THEN 1 ELSE 2)
       + (IF c.goal = Null THEN 4 ELSE JsonStringSize(c.goal, measure))
       + (IF c.subject = Null THEN 4 ELSE JsonStringSize(c.subject, measure))
       + (IF c.format = Null THEN 4 ELSE JsonStringSize(c.format, measure))

JsonTopItemSize(item, measure) ==
    23 + JsonStringSize(item.id, measure) + JsonStringSize(item.title, measure)
       + JsonStringSize(item.url, measure)

JsonTopSize(top, measure) ==
    LET sum[i \in 0..Len(top)] ==
            IF i = 0 THEN 0 ELSE sum[i - 1] + JsonTopItemSize(top[i], measure)
    IN  2 + (IF Len(top) > 0 THEN Len(top) - 1 ELSE 0) + sum[Len(top)]

StringifiedSize(payload, measure) ==
    36 + JsonStringSize(payload.flow, measure) + JsonCriteriaSize(payload.criteria, measure)
       + JsonTopSize(payload.top, measure) + JsonStringSize(payload.note, measure)

MiniAppPayload(flow, note) ==
    [flow |-> flow,
     criteria |-> criteria,
     top |-> [i \in 1..Min(3, Len(results)) |->
                [id |-> results[i].id, title |-> results[i].title, url |-> results[i].url]],
     note |-> note]

\* builder without the size check
buildMiniAppPayloadUnchecked(flow, note) == MiniAppPayload(flow, note)

buildMiniAppPayload(flow, note) ==
    IF StringifiedSize(MiniAppPayload(flow, note), Utf16Units) >= PayloadLimit
    THEN NoPayload
    ELSE MiniAppPayload(flow, note)

\* one call into the host (or window.open), and whether it threw
HostCall(fn, link, data, threw) == [fn |-> fn, link |-> link, data |-> data, threw |-> threw]

\* which of the calls a hand-off can make throw
HostOutcomes ==
    [opener1 : BOOLEAN, window1 : BOOLEAN, opener2 : BOOLEAN, window2 : BOOLEAN,
     send : BOOLEAN, close : BOOLEAN]

\* URLs handed to openExternalLink, and what url.trim() makes of them
LinkUrls ==
    {"", " ", "tg://resolve", " tg://resolve ", "https://t.me/", "https://example.com/",
     "http://t.me/"}

TrimUrl(url) ==
    CASE url = " " -> ""
      [] url = " tg://resolve " -> "tg://resolve"
      [] OTHER -> url

\* target.startsWith("https://t.me/") || target.startsWith("tg://")
IsTelegramLink(target) == target \in {"tg://resolve", "https://t.me/"}

\* opener that gives up when the host opener throws
openExternalLinkWithoutFallback(webApp, url, openerThrows, windowThrows) ==
    LET target == TrimUrl(url)
        opener == IF IsTelegramLink(target) THEN "openTelegramLink" ELSE "openLink"
        viaHost == IF webApp[opener]
                   THEN <<HostCall(opener, target, NoPayload, openerThrows)>>
                   ELSE <<>>
    IN  IF target = ""
        THEN [ok |-> FALSE, calls |-> <<>>]
        ELSE IF webApp[opener]
        THEN [ok |-> ~openerThrows, calls |-> viaHost]
        ELSE [ok |-> ~windowThrows,
              calls |-> <<HostCall("windowOpen", target, NoPayload, windowThrows)>>]

\* tg.ts openExternalLink.  webApp: which openers the host provides (none of
\* them when webApp is null)
openExternalLink(webApp, url, openerThrows, windowThrows) ==
    LET target == TrimUrl(url)
        opener == IF IsTelegramLink(target) THEN "openTelegramLink" ELSE "openLink"
        viaHost == IF webApp[opener]
                   THEN <<HostCall(opener, target, NoPayload, openerThrows)>>
                   ELSE <<>>
    IN  IF target = ""
        THEN [ok |-> FALSE, calls |-> <<>>]
        ELSE IF webApp[opener] /\ ~openerThrows
        THEN [ok |-> TRUE, calls |-> viaHost]
        ELSE [ok |-> ~windowThrows,
              calls |-> Append(viaHost, HostCall("windowOpen", target, NoPayload,
                                                 windowThrows))]

preferredLinks == <<"tg://resolve", "https://t.me/">>

\* loop that gives up after the first link
TryLinksFirstOnly(out) ==
    LET first == openExternalLink(host, preferredLinks[1], out.opener1, out.window1)
    IN  [opened |-> first.ok, calls |-> first.calls]

\* for (const link of preferredLinks) if (openExternalLink(webApp, link)) return
TryLinks(out) ==
    LET first == openExternalLink(host, preferredLinks[1], out.opener1, out.window1)
        second == openExternalLink(host, preferredLinks[2], out.opener2, out.window2)
    IN  IF first.ok
        THEN [opened |-> TRUE, calls |-> first.calls]
        ELSE [opened |-> second.ok, calls |-> first.calls \o second.calls]

\* sender that requests the close before it sends
sendPayloadToChatClosingFirst(payload, successText, sendThrows, closeThrows) ==
    IF ~host.sendData
    THEN [calls |-> <<>>, error |-> "send_unavailable"]
    ELSE IF host.close /\ closeThrows
    THEN [calls |-> <<HostCall("close", "-", NoPayload, TRUE)>>, error |-> "send_failed"]
    ELSE [calls |-> (IF host.close THEN <<HostCall("close", "-", NoPayload, FALSE)>> ELSE <<>>)
                    \o <<HostCall("sendData", "-", payload, sendThrows)>>,
          error |-> IF sendThrows THEN "send_failed" ELSE successText]

sendPayloadToChat(payload, successText, sendThrows, closeThrows) ==
    IF ~host.sendData
    THEN [calls |-> <<>>, error |-> "send_unavailable"]
    ELSE IF sendThrows
    THEN [calls |-> <<HostCall("sendData", "-", payload, TRUE)>>, error |-> "send_failed"]
    ELSE IF ~host.close
    THEN [calls |-> <<HostCall("sendData", "-", payload, FALSE)>>, error |-> successText]
    ELSE [calls |-> <<HostCall("sendData", "-", payload, FALSE),
                      HostCall("close", "-", NoPayload, closeThrows)>>,
          error |-> IF closeThrows THEN "send_failed" ELSE successText]

\* request that sends a second time when the first send failed
sendConsultationRequestToChatResending(sendThrows, closeThrows) ==
    LET payload == buildMiniAppPayload("consultation_request", consultationNote)
        sent == sendPayloadToChat(payload, "request_sent", sendThrows, closeThrows)
        again == sendPayloadToChat(payload, "request_sent", FALSE, closeThrows)
    IN  IF payload = NoPayload
        THEN [built |-> "rejected", payload |-> NoPayload, calls |-> <<>>,
              error |-> "request_not_prepared"]
        ELSE IF sent.error = "send_failed"
        THEN [built |-> "accepted", payload |-> payload, calls |-> sent.calls \o again.calls,
              error |-> again.error]
        ELSE [built |-> "accepted", payload |-> payload, calls |-> sent.calls,
              error |-> sent.error]

sendConsultationRequestToChat(sendThrows, closeThrows) ==
    LET payload == buildMiniAppPayload("consultation_request", consultationNote)
        sent == sendPayloadToChat(payload, "request_sent", sendThrows, closeThrows)
    IN  IF payload = NoPayload
        THEN [built |-> "rejected", payload |-> NoPayload, calls |-> <<>>,
              error |-> "request_not_prepared"]
        ELSE [built |-> "accepted", payload |-> payload, calls |-> sent.calls,
              error |-> sent.error]

\* after a direct link opened nothing is rendered; after the structured flow
\* state.error is assigned once more and the page is rendered
openManagerChat(out) ==
    LET direct == TryLinks(out)
        flow == sendConsultationRequestToChat(out.send, out.close)
    IN  /\ UNCHANGED <<view, criteria, results, loading, chatInput, chatMessages,
                       chatLoading, chatProgressText, chatElapsedSec, chatProgressTimer,
                       liveTimers, timerSeq, askReqs, catalogReqs, asksStarted,
                       asksCompleted, coachmarkStep, offerVars>>
        /\ IF direct.opened
           THEN /\ handoff' = [NoHandoff EXCEPT !.calls = direct.calls]
                /\ UNCHANGED <<error, dom, resultSummary, mainButtonHandler, mainButton>>
           ELSE /\ handoff' = [calls |-> direct.calls \o flow.calls, built |-> flow.built,
                               payload |-> flow.payload, flowError |-> flow.error]
                /\ error' = "manager_fallback"
                /\ render

\* the manager card of the home view, the contact button and the dock
\* button of the results view
ClickManager(out) ==
    /\ dom.view \in {"home", "results"}
    /\ out \in HostOutcomes
    /\ Mark("clickManager")
    /\ openManagerChat(out)
    /\ UNCHANGED <<errVars, askTextVars, sideVars, storage, host>>

\* the host main button while the results handler is subscribed
MainButtonOpenManager(out) ==
    /\ mainButtonHandler = "results"
    /\ out \in HostOutcomes
    /\ Mark("mainButtonManager")
    /\ openManagerChat(out)
    /\ UNCHANGED <<errVars, askTextVars, sideVars, storage, host>>

CompleteCriteria ==
    [brand |-> "kmipt", grade |-> 9, goal |-> "ege", subject |-> "math", format |-> "online"]

\* result lists earlier searches and asks of the session can have left:
\* short and long titles, Latin and Cyrillic, more than three items
HandoffResults ==
    {<<>>,
     <<CatalogItem("A"), CatalogItem("B")>>,
     <<CatalogItem("LongLatin")>>,
     <<CatalogItem("LongLatin"), CatalogItem("LongLatin")>>,
     <<CatalogItem("EdgeLatin")>>,
     <<CatalogItem("LongCyrillic")>>,
     <<CatalogItem("A"), CatalogItem("B"), CatalogItem("P"), CatalogItem("LongLatin"),
       CatalogItem("LongLatin")>>}

HandoffHosts == {h \in Hosts : ~h.offClickThrows}

\* the user is back at home with the criteria and results of the session
InitHandoffSpec ==
    /\ InitErr
    /\ InitAskText
    /\ InitSide
    /\ \E h \in HandoffHosts : \E crit \in {InitCriteria, CompleteCriteria} :
         \E res \in HandoffResults : InitSession(ReturningUser, h, crit, res)

NextHandoff ==
    \/ \E v \in {"home", "picker", "chat"} : NavigateTo(v)
    \/ GoBack
    \/ \E out \in HostOutcomes : ClickManager(out)
    \/ \E out \in HostOutcomes : MainButtonOpenManager(out)

HandoffSpec == InitHandoffSpec /\ [][NextHandoff]_vars

(***************************************************************************)
(* The main button on a host whose offClick may throw: navigation, the     *)
(* picker and the catalog search, each ending in render().                 *)
(***************************************************************************)
ButtonHosts == {h \in Hosts : h.openTelegramLink /\ h.sendData /\ h.close}

InitButtonSpec ==
    /\ InitErr
    /\ InitAskText
    /\ InitSide
    /\ \E h \in ButtonHosts : InitSession(ReturningUser, h, InitCriteria, <<>>)

NextButton ==
    \/ \E v \in {"home", "picker", "chat"} : NavigateTo(v)
    \/ GoBack
    \/ \E f \in CriteriaFields : \E x \in OptionsOf(f) : SelectCriterion(f, x)
    \/ ClickSubmit
    \/ \E i \in 1..Len(catalogReqs) : CatalogSettle(i)
    \/ \E i \in 1..Len(catalogReqs) : \E r \in CatalogResponses : CatalogContinue(i, r)

ButtonSpec == InitButtonSpec /\ [][NextButton]_vars

(***************************************************************************)
(* Onboarding: a session in every storage (first visit, returning user,    *)
(* storage that throws), with the handlers that write coachmarkStep and    *)
(* the navigation around them.                                             *)
(***************************************************************************)
InitCoachSpec ==
    /\ InitErr
    /\ InitAskText
    /\ InitSide
    /\ \E st \in Storages : InitSession(st, TelegramHost, InitCriteria, <<>>)

NextCoach ==
    \/ \E v \in {"home", "picker", "chat"} : NavigateTo(v)
    \/ GoBack
    \/ \E f \in CriteriaFields : \E x \in OptionsOf(f) : SelectCriterion(f, x)
    \/ ClickSubmit
    \/ \E i \in 1..Len(catalogReqs) : CatalogSettle(i)
    \/ \E i \in 1..Len(catalogReqs) : \E r \in CatalogResponses : CatalogContinue(i, r)
    \/ CoachmarkSkip
    \/ CoachmarkNext

CoachSpec == InitCoachSpec /\ [][NextCoach]_vars

(***************************************************************************)
(* Onboarding across sessions: the page is torn down and booted again in   *)
(* the same browser.  AppState is rebuilt by the module-level initialisers *)
(* (pending requests and intervals die with the page); localStorage and    *)
(* the host persist.                                                       *)
(***************************************************************************)
Reload ==
    /\ lastOp' = [op |-> "reload", from |-> "-", resp |-> NoResp]
    /\ coachmarkStep' = (IF shouldShowCoachmarks(storage) THEN 0 ELSE -1)
    /\ mainButton' = SyncedMainButton(<<>>, "home")
    /\ view' = "home"
    /\ criteria' = InitCriteria
    /\ results' = <<>>
    /\ loading' = FALSE
    /\ error' = Null
    /\ chatInput' = <<>>
    /\ chatMessages' = <<>>
    /\ chatLoading' = FALSE
    /\ chatProgressText' = CHAT_PROGRESS_STEPS[1]
    /\ chatElapsedSec' = 0
    /\ chatProgressTimer' = NoTimer
    /\ liveTimers' = {}
    /\ timerSeq' = 0
    /\ mainButtonHandler' = syncTelegramMainButton("home")
    /\ dom' = RenderDom("home", InitCriteria, FALSE, FALSE, <<>>)
    /\ resultSummary' = createResultSummaryCard("home", "none", <<>>, "")
    /\ askReqs' = <<>>
    /\ catalogReqs' = <<>>
    /\ matchQuality' = "none"
    /\ managerRecommended' = FALSE
    /\ managerMessage' = ""
    /\ managerCallToAction' = ""
    /\ lastManagerOffer' = NoOffer
    /\ UNCHANGED <<asksStarted, asksCompleted>>
    /\ UNCHANGED envVars

InitOnboardingSpec ==
    /\ InitErr
    /\ InitAskText
    /\ InitSide
    /\ \E st \in Storages : InitSession(st, TelegramHost, InitCriteria, <<>>)

NextOnboarding ==
    \/ \E v \in {"home", "picker", "chat"} : NavigateTo(v)
    \/ GoBack
    \/ \E f \in CriteriaFields : \E x \in OptionsOf(f) : SelectCriterion(f, x)
    \/ ClickSubmit
    \/ \E i \in 1..Len(catalogReqs) : CatalogSettle(i)
    \/ \E i \in 1..Len(catalogReqs) : \E r \in CatalogResponses : CatalogContinue(i, r)
    \/ \E p \in CHAT_PROMPTS : asksStarted < MaxSideAsks /\ ClickQuickPrompt(p)
    \/ \E i \in 1..Len(askReqs) : AskSettle(i)
    \/ \E i \in 1..Len(askReqs) : \E r \in AskResponses : AskContinue(i, r)
    \/ CoachmarkSkip
    \/ CoachmarkNext
    \/ Reload

OnboardingSpec == InitOnboardingSpec /\ [][NextOnboarding]_vars

(***************************************************************************)
(* Slow asks: the ask lifecycle with a backend slow enough for the ticker  *)
(* to pass the last caption, and the navigation around it.                 *)
(***************************************************************************)
NextTicker ==
    \/ \E v \in {"home", "picker", "chat"} : NavigateTo(v)
    \/ GoBack
    \/ \E p \in CHAT_PROMPTS : ClickQuickPrompt(p)
    \/ \E t \in liveTimers : LongTick(t)
    \/ \E i \in 1..Len(askReqs) : AskSettle(i)
    \/ \E i \in 1..Len(askReqs) : \E r \in AskResponses : AskContinue(i, r)

TickerSpec == Init /\ [][NextTicker]_vars

(***************************************************************************)
(* The picker with several chips per group: selections and re-selections   *)
(* in any order, navigation, and the search.                               *)
(***************************************************************************)
PickerOptionsOf(field) ==
    IF field = "grade" THEN {1, 11}
    ELSE IF field = "goal" THEN {"ege", "oge"}
    ELSE IF field = "subject" THEN {"math", "physics"}
    ELSE {"online", "offline"}

NextPicker ==
    \/ \E v \in {"home", "picker", "chat"} : NavigateTo(v)
    \/ GoBack
    \/ \E f \in CriteriaFields : \E x \in PickerOptionsOf(f) : SelectCriterion(f, x)
    \/ ClickSubmit
    \/ \E i \in 1..Len(catalogReqs) : CatalogSettle(i)
    \/ \E i \in 1..Len(catalogReqs) : \E r \in CatalogResponses : CatalogContinue(i, r)

PickerSpec == Init /\ [][NextPicker]_vars

(***************************************************************************)
(* Match quality and manager offers: searches and asks against a backend   *)
(* that grades the match and offers a manager, with the picker and the     *)
(* navigation around them.                                                 *)
(***************************************************************************)
ManagerFields == {<<FALSE, "", "">>, <<TRUE, "M1", "C1">>, <<TRUE, "", "">>}

OfferCatalogResponses ==
    {CatalogBody("network_error", <<>>), CatalogBody("non_2xx", <<>>)}
    \cup {[kind |-> "success", items |-> items, match_quality |-> quality,
           manager_recommended |-> m[1], manager_message |-> m[2],
           manager_call_to_action |-> m[3]] :
             items \in {<<>>, <<CatalogItem("A"), CatalogItem("B")>>},
             quality \in {"", "strong", "limited"}, m \in ManagerFields}

ManagerOffers ==
    {NoManagerOffer,
     [present |-> TRUE, recommended |-> TRUE, message |-> "M2", call_to_action |-> "C2"],
     [present |-> TRUE, recommended |-> FALSE, message |-> "", call_to_action |-> ""]}

OfferAskResponses ==
    {AskBody("network_error", <<>>)}
    \cup {[kind |-> "success", products |-> products, match_quality |-> quality,
           manager_offer |-> offer] :
             products \in {<<>>, <<Recommended("P", "")>>, <<JsNullItem>>},
             quality \in {"", "strong"}, offer \in ManagerOffers}

NextOffer ==
    \/ \E v \in {"home", "picker", "chat"} : NavigateTo(v)
    \/ GoBack
    \/ \E f \in CriteriaFields : \E x \in OptionsOf(f) : SelectCriterion(f, x)
    \/ ClickSubmit
    \/ \E i \in 1..Len(catalogReqs) : CatalogSettle(i)
    \/ \E i \in 1..Len(catalogReqs) : \E r \in OfferCatalogResponses : CatalogContinue(i, r)
    \/ \E p \in CHAT_PROMPTS : asksStarted < MaxSideAsks /\ ClickQuickPrompt(p)
    \/ \E i \in 1..Len(askReqs) : AskSettle(i)
    \/ \E i \in 1..Len(askReqs) : \E r \in OfferAskResponses : AskContinue(i, r)

OfferSpec == Init /\ [][NextOffer]_vars

(***************************************************************************)
(* openExternalLink applied to every URL of the sample, on every host and  *)
(* with every outcome of the calls it makes.                               *)
(***************************************************************************)
LinkWebApps == [openTelegramLink : BOOLEAN, openLink : BOOLEAN]

LinkCalls ==
    [webApp : LinkWebApps, url : LinkUrls, openerThrows : BOOLEAN, windowThrows : BOOLEAN,
     done : {FALSE}, ok : {FALSE}, calls : {<<>>}]

OpenLink ==
    /\ ~linkCall.done
    /\ LET out == openExternalLink(linkCall.webApp, linkCall.url, linkCall.openerThrows,
                                   linkCall.windowThrows)
       IN  linkCall' = [linkCall EXCEPT !.done = TRUE, !.ok = out.ok, !.calls = out.calls]
    /\ UNCHANGED appVars
    /\ UNCHANGED <<errVars, askTextVars, bootVars, managerContext, adminVars, storage, host,
                   handoff>>

InitLinkSpec ==
    /\ InitApp
    /\ InitErr
    /\ InitAskText
    /\ InitBootOver
    /\ managerContext = NoManagerContext
    /\ InitAdmin
    /\ linkCall \in LinkCalls

NextLink == OpenLink

LinkSpec == InitLinkSpec /\ [][NextLink]_vars

(***************************************************************************)
(* Specification of the app.                                               *)
(***************************************************************************)
Next ==
    \/ \E v \in {"home", "picker", "chat"} : NavigateTo(v)
    \/ GoBack
    \/ \E f \in CriteriaFields : \E x \in OptionsOf(f) : SelectCriterion(f, x)
    \/ ClickSubmit
    \/ MainButtonClick
    \/ \E i \in 1..Len(catalogReqs) : CatalogSettle(i)
    \/ \E i \in 1..Len(catalogReqs) : \E r \in CatalogResponses : CatalogContinue(i, r)
    \/ \E s \in InputStrings : TypeInput(s)
    \/ ClickSend
    \/ ClickDockSend
    \/ \E p \in CHAT_PROMPTS : ClickQuickPrompt(p)
    \/ \E t \in liveTimers : Tick(t)
    \/ \E i \in 1..Len(askReqs) : AskSettle(i)
    \/ \E i \in 1..Len(askReqs) : \E r \in AskResponses : AskContinue(i, r)

Spec == Init /\ [][Next]_vars

\* the event loop runs the continuation of every settled request
FairSpec ==
    /\ Spec
    /\ WF_vars(\E i \in 1..Len(askReqs) : \E r \in AskResponses : AskContinue(i, r))
    /\ WF_vars(\E i \in 1..Len(catalogReqs) : \E r \in CatalogResponses : CatalogContinue(i, r))

(***************************************************************************)
(* readAssistantApiError: the user-facing message and the correlation id   *)
(* extracted from a non-2xx response of /api/assistant/ask.                *)
(* A JSON member is absent, a non-string, or a string; the detail member   *)
(* may also be an object.  A null requestId is the empty string here (the  *)
(* code never keeps an empty one).                                         *)
(***************************************************************************)
Absent == [t |-> "absent", s |-> <<>>]
NonString == [t |-> "other", s |-> <<>>]
Str(x) == [t |-> "str", s |-> x]

NoDetail == [t |-> "absent", s |-> <<>>, user_message |-> Absent, message |-> Absent, request_id |-> Absent]
OtherDetail == [NoDetail EXCEPT !.t = "other"]
StrDetail(x) == [NoDetail EXCEPT !.t = "str", !.s = x]
ObjDetail(um, m, rid) == [t |-> "obj", s |-> <<>>, user_message |-> um, message |-> m, request_id |-> rid]

MessageValues(c) == {Absent, NonString, Str(<<" ">>), Str(<<" ", c, " ">>)}
IdValues(c) == {Absent, Str(<<c, " ">>)}

DetailValues ==
    {NoDetail, OtherDetail, StrDetail(<<" ">>), StrDetail(<<" ", "d", " ">>)}
    \cup {ObjDetail(um, m, rid) : um \in MessageValues("n"), m \in MessageValues("m"), rid \in IdValues("k")}

\* body: not JSON (response.json() rejects), JSON that is not an object, or an object
BodyValues ==
    {[json |-> FALSE, isRecord |-> FALSE, user_message |-> Absent, request_id |-> Absent, detail |-> NoDetail],
     [json |-> TRUE, isRecord |-> FALSE, user_message |-> Absent, request_id |-> Absent, detail |-> NoDetail]}
    \cup {[json |-> TRUE, isRecord |-> TRUE, user_message |-> um, request_id |-> rid, detail |-> d] :
             um \in MessageValues("u"), rid \in IdValues("r"), d \in DetailValues}

ErrorStatuses == {422, 499, 500, 503}

\* X-Request-ID header: headers.get() gives null when absent, read as ""
HeaderValues == {<<>>, <<" ", "h">>}

ErrorResponses ==
    {[status |-> st, header |-> h, body |-> b] : st \in ErrorStatuses, h \in HeaderValues, b \in BodyValues}

fallbackMessage == <<"fallback">>

NonBlankString(v) == v.t = "str" /\ Trim(v.s) # <<>>

\* reader that trusts a string detail whatever the status
DetailMessageTrustingAnyStatus(detail, status, userMessage) ==
    IF detail.t = "str"
    THEN IF Trim(detail.s) # <<>> THEN Trim(detail.s) ELSE userMessage
    ELSE IF detail.t = "obj"
    THEN IF NonBlankString(detail.user_message) THEN Trim(detail.user_message.s)
         ELSE IF NonBlankString(detail.message) /\ status < 500 THEN Trim(detail.message.s)
         ELSE userMessage
    ELSE userMessage

DetailMessage(detail, status, userMessage) ==
    IF detail.t = "str"
    THEN IF Trim(detail.s) # <<>> /\ status < 500 THEN Trim(detail.s) ELSE userMessage
    ELSE IF detail.t = "obj"
    THEN IF NonBlankString(detail.user_message) THEN Trim(detail.user_message.s)
         ELSE IF NonBlankString(detail.message) /\ status < 500 THEN Trim(detail.message.s)
         ELSE userMessage
    ELSE userMessage

DetailRequestId(detail, requestId) ==
    IF detail.t = "obj" /\ requestId = <<>> /\ NonBlankString(detail.request_id)
    THEN Trim(detail.request_id.s)
    ELSE requestId

readAssistantApiError(response) ==
    LET headerId == Trim(response.header)
        payload == response.body
        topMessage == IF NonBlankString(payload.user_message)
                      THEN Trim(payload.user_message.s) ELSE fallbackMessage
        topId == IF headerId = <<>> /\ NonBlankString(payload.request_id)
                 THEN Trim(payload.request_id.s) ELSE headerId
    IN  IF payload.json /\ payload.isRecord
        THEN [userMessage |-> DetailMessage(payload.detail, response.status, topMessage),
              requestId |-> DetailRequestId(payload.detail, topId)]
        ELSE [userMessage |-> fallbackMessage, requestId |-> headerId]

ReadError ==
    /\ ~errOut.done
    /\ errOut' = [done |-> TRUE, error |-> readAssistantApiError(errIn)]
    /\ UNCHANGED errIn
    /\ UNCHANGED appVars
    /\ UNCHANGED <<askTextVars, sideVars, storage, host, handoff>>

InitErrSpec ==
    /\ InitApp
    /\ InitAskText
    /\ InitSide
    /\ errIn \in ErrorResponses
    /\ errOut = [done |-> FALSE]

NextErr == ReadError

\* the reader applied to every error response of the sample
ErrSpec == InitErrSpec /\ [][NextErr]_vars

(***************************************************************************)
(* Properties of the error reader.                                         *)
(***************************************************************************)
\* the message the stated priority order selects
PriorityMessage(response) ==
    LET payload == response.body
        detail == payload.detail
    IN  IF ~(payload.json /\ payload.isRecord) THEN fallbackMessage
        ELSE IF NonBlankString(payload.user_message) THEN Trim(payload.user_message.s)
        ELSE IF detail.t = "str" /\ Trim(detail.s) # <<>> /\ response.status < 500 THEN Trim(detail.s)
        ELSE IF detail.t = "obj" /\ NonBlankString(detail.user_message) THEN Trim(detail.user_message.s)
        ELSE IF detail.t = "obj" /\ NonBlankString(detail.message) THEN Trim(detail.message.s)
        ELSE fallbackMessage

\* C10: the user-facing message of a non-2xx ask response follows the
\* priority: top-level user_message, else a string detail (status < 500),
\* else the nested detail's user_message or message, else the fallback.
C10_ErrorMessagePriority ==
    errOut.done => errOut.error.userMessage = PriorityMessage(errIn)

(***************************************************************************)
(* The texts one ask leaves on the page: the try / catch of                *)
(* askAssistantQuestion applied to one HTTP outcome.  Texts are sequences  *)
(* of tokens; a null state.error, an absent meta and a null requestId are  *)
(* the empty sequence.                                                     *)
(***************************************************************************)
RequestCodeLabel == <<" ", "request_code:", " ">>

okFalseMessage == <<"incorrect_result">>

AssistantApiError(userMessage, requestId) == [userMessage |-> userMessage, requestId |-> requestId]

normalizeAssistantApiError == AssistantApiError(fallbackMessage, <<>>)

\* 2xx bodies: not JSON, the JSON null, or an object
NoOkPayload ==
    [shape |-> "none", ok |-> FALSE, request_id |-> Absent, processing_note |-> <<>>,
     recommended_products |-> <<>>]

OkPayloads ==
    {[NoOkPayload EXCEPT !.shape = "not_json"], [NoOkPayload EXCEPT !.shape = "null"]}
    \cup {[shape |-> "record", ok |-> o, request_id |-> rid, processing_note |-> n,
           recommended_products |-> ps] :
             o \in BOOLEAN, rid \in IdValues("r"), n \in {<<>>, <<"note">>},
             ps \in {<<>>, <<Recommended("P", "")>>, <<JsNullItem>>}}

NoErrorResponse ==
    [status |-> 0, header |-> <<>>,
     body |-> [json |-> FALSE, isRecord |-> FALSE, user_message |-> Absent,
               request_id |-> Absent, detail |-> NoDetail]]

\* fetch rejects, answers non-2xx, or answers 2xx
AskOutcomes ==
    {[kind |-> "network_error", response |-> NoErrorResponse, header |-> <<>>, payload |-> NoOkPayload]}
    \cup {[kind |-> "non_2xx", response |-> r, header |-> r.header, payload |-> NoOkPayload] :
             r \in ErrorResponses}
    \cup {[kind |-> "2xx", response |-> NoErrorResponse, header |-> h, payload |-> pl] :
             h \in HeaderValues, pl \in OkPayloads}

\* payload.request_id || ... : any non-empty string is taken as it is
PayloadRequestId(payload) ==
    IF payload.request_id.t = "str" /\ payload.request_id.s # <<>>
    THEN payload.request_id.s ELSE <<>>

ResponseRequestId(outcome) ==
    IF PayloadRequestId(outcome.payload) # <<>> THEN PayloadRequestId(outcome.payload)
    ELSE Trim(outcome.header)

MetaWithRequestId(outcome) ==
    IF ResponseRequestId(outcome) # <<>>
    THEN outcome.payload.processing_note \o RequestCodeLabel \o ResponseRequestId(outcome)
    ELSE outcome.payload.processing_note

AnswerEntry(outcome) ==
    [role |-> "assistant", text |-> <<"answer">>, meta |-> MetaWithRequestId(outcome)]

\* the entry is pushed before recommended_products is mapped
AnswerPushed(outcome) ==
    outcome.kind = "2xx" /\ outcome.payload.shape = "record" /\ outcome.payload.ok

\* what the try block throws, if it throws
AskThrows(outcome) ==
    IF AnswerPushed(outcome)
    THEN FirstBad(outcome.payload.recommended_products) # 0
    ELSE TRUE

AskThrown(outcome) ==
    IF outcome.kind = "non_2xx" THEN readAssistantApiError(outcome.response)
    ELSE IF outcome.kind = "2xx" /\ outcome.payload.shape = "record" /\ ~outcome.payload.ok
    THEN AssistantApiError(okFalseMessage, PayloadRequestId(outcome.payload))
    ELSE normalizeAssistantApiError

StateErrorText(apiError) ==
    IF apiError.requestId # <<>>
    THEN apiError.userMessage \o RequestCodeLabel \o apiError.requestId
    ELSE apiError.userMessage

assistantErrorText(apiError) ==
    IF apiError.requestId # <<>>
    THEN <<"apology_with_code", " ">> \o apiError.requestId \o <<".">>
    ELSE <<"apology">>

ApologyEntry(apiError) ==
    [role |-> "assistant", text |-> assistantErrorText(apiError), meta |-> <<>>]

AskTexts(outcome) ==
    LET pushed == IF AnswerPushed(outcome) THEN <<AnswerEntry(outcome)>> ELSE <<>>
    IN  IF AskThrows(outcome)
        THEN [thrown |-> TRUE,
              apiError |-> AskThrown(outcome),
              error |-> StateErrorText(AskThrown(outcome)),
              messages |-> Append(pushed, ApologyEntry(AskThrown(outcome)))]
        ELSE [thrown |-> FALSE,
              apiError |-> AssistantApiError(<<>>, <<>>),
              error |-> <<>>,
              messages |-> pushed]

CompleteAsk ==
    /\ ~askOut.done
    /\ askOut' = [done |-> TRUE, texts |-> AskTexts(askIn)]
    /\ UNCHANGED askIn
    /\ UNCHANGED appVars
    /\ UNCHANGED <<errVars, sideVars, storage, host, handoff>>

InitAskTextSpec ==
    /\ InitApp
    /\ InitErr
    /\ InitSide
    /\ askIn \in AskOutcomes
    /\ askOut = [done |-> FALSE]

NextAskText == CompleteAsk

\* the completion of an ask applied to every outcome of the sample
AskTextSpec == InitAskTextSpec /\ [][NextAskText]_vars

(***************************************************************************)
(* Boot: Promise.all([loadMiniappMeta(), loadWhoAmI()]).then(render).      *)
(* Both fetches are started by the module itself; their continuations run  *)
(* between the handlers of the session.  state.statusLine, a caption that  *)
(* no handler reads, is not part of the model.                             *)
(***************************************************************************)
\* telegram.user of the host, and the user the backend answers with
HostUser == [isNull |-> FALSE, first_name |-> "host", username |-> "host", id |-> 1]
BackendUser == [isNull |-> FALSE, first_name |-> "backend", username |-> "backend", id |-> 2]

MetaFields == {"brandName", "advisorName", "managerLabel", "managerChatUrl", "userMiniappUrl"}

\* a MiniappMetaResponse body: every member absent, blank, or a padded name
MetaPayload(v) == [f \in MetaFields |-> v]

MetaPayloads ==
    {MetaPayload(Absent), MetaPayload(Str(<<" ">>)), MetaPayload(Str(<<" ", "new", " ">>)),
     [MetaPayload(Absent) EXCEPT !.brandName = Str(<<"new">>), !.managerChatUrl = NonString]}

MetaResponses ==
    {[kind |-> k, payload |-> MetaPayload(Absent)] : k \in {"network_error", "bad_json"}}
    \cup {[kind |-> k, payload |-> body] : k \in {"non_2xx", "ok_false", "success"},
                                          body \in MetaPayloads}

\* the five if statements of loadMiniappMeta: every member but
\* manager_chat_url is taken only when it is a non-blank string
MetaField(name, value, old) ==
    IF value.t = "str" /\ (name = "managerChatUrl" \/ Trim(value.s) # <<>>)
    THEN Trim(value.s)
    ELSE old

\* metadata applied whatever the status and the ok member say
MetaApplyWithoutOkCheck(resp, old) ==
    IF resp.kind \in {"network_error", "bad_json"} THEN old
    ELSE [f \in MetaFields |-> MetaField(f, resp.payload[f], old[f])]

\* loadMiniappMeta after the await: the early returns, the catch, the fields
MetaApply(resp, old) ==
    IF resp.kind # "success" THEN old
    ELSE [f \in MetaFields |-> MetaField(f, resp.payload[f], old[f])]

MetaContinue(resp) ==
    /\ bootReqs.meta = "pending"
    /\ bootReqs' = [bootReqs EXCEPT !.meta = "done"]
    /\ branding' = MetaApply(resp, branding)
    /\ MarkDone("metaDone", resp)
    /\ UNCHANGED appVarsButLastOp
    /\ UNCHANGED <<errVars, askTextVars, user, linkCall, managerContext, adminVars, storage,
                   host, handoff>>

WhoAmIResponses ==
    {[kind |-> k, user |-> NoUser] :
        k \in {"network_error", "unauthorized", "non_2xx", "bad_json", "ok_false"}}
    \cup {[kind |-> "success", user |-> BackendUser]}

\* loadWhoAmI after the await: state.user = payload.user on the one path
\* that reaches it
WhoAmIApply(resp, old) == IF resp.kind = "success" THEN resp.user ELSE old

WhoAmIContinue(resp) ==
    /\ bootReqs.whoami = "pending"
    /\ bootReqs' = [bootReqs EXCEPT !.whoami = "done"]
    /\ user' = WhoAmIApply(resp, user)
    /\ MarkDone("whoamiDone", resp)
    /\ UNCHANGED appVarsButLastOp
    /\ UNCHANGED <<errVars, askTextVars, branding, linkCall, managerContext, adminVars,
                   storage, host, handoff>>

\* .then(() => render()) once both promises have resolved
BootRender ==
    /\ bootReqs = [meta |-> "done", whoami |-> "done", rendered |-> FALSE]
    /\ bootReqs' = [bootReqs EXCEPT !.rendered = TRUE]
    /\ Mark("bootRender")
    /\ UNCHANGED <<view, criteria, results, loading, error, chatInput, chatMessages,
                   chatLoading, chatProgressText, chatElapsedSec, chatProgressTimer,
                   liveTimers, timerSeq, askReqs, catalogReqs, asksStarted, asksCompleted,
                   coachmarkStep, offerVars>>
    /\ render
    /\ UNCHANGED <<errVars, askTextVars, branding, user, linkCall, managerContext, adminVars,
                   storage, host, handoff>>

\* the module has just been evaluated: both fetches are in flight
InitBootSpec ==
    /\ InitApp
    /\ InitErr
    /\ InitAskText
    /\ branding = InitBranding
    /\ user \in {NoUser, HostUser}
    /\ bootReqs = [meta |-> "pending", whoami |-> "pending", rendered |-> FALSE]
    /\ linkCall = NoLinkCall
    /\ managerContext = NoManagerContext
    /\ InitAdmin

NextBoot ==
    \/ \E r \in MetaResponses : MetaContinue(r)
    \/ \E r \in WhoAmIResponses : WhoAmIContinue(r)
    \/ BootRender
    \/ \E v \in {"home", "picker", "chat"} : NavigateTo(v)
    \/ GoBack
    \/ \E f \in {"grade", "goal"} : \E x \in PickerOptionsOf(f) : SelectCriterion(f, x)
    \/ \E p \in CHAT_PROMPTS : asksStarted < MaxSideAsks /\ ClickQuickPrompt(p)
    \/ \E i \in 1..Len(askReqs) : AskSettle(i)
    \/ \E i \in 1..Len(askReqs) : \E r \in AskResponses : AskContinue(i, r)

BootSpec == InitBootSpec /\ [][NextBoot]_vars

(***************************************************************************)
(* A session with searches, asks, ticks and hand-offs: what writes         *)
(* state.results.                                                          *)
(***************************************************************************)
\* hand-offs whose direct link opens, and hand-offs whose links both fail
\* and whose sendData returns or throws
ResultsOutcomes ==
    {out \in HostOutcomes :
        out.opener2 = out.opener1 /\ out.window1 /\ out.window2 /\ ~out.close}

\* goal, subject and format are chosen, the grade is not
InitResultsSpec ==
    /\ InitErr
    /\ InitAskText
    /\ InitSide
    /\ InitSession(ReturningUser, TelegramHost, [CompleteCriteria EXCEPT !.grade = NoGrade], <<>>)

NextResults ==
    \/ \E v \in {"home", "picker", "chat"} : NavigateTo(v)
    \/ GoBack
    \/ \E x \in GradeOptions : SelectCriterion("grade", x)
    \/ ClickSubmit
    \/ \E i \in 1..Len(catalogReqs) : CatalogSettle(i)
    \/ \E i \in 1..Len(catalogReqs) : \E r \in CatalogResponses : CatalogContinue(i, r)
    \/ \E p \in CHAT_PROMPTS : asksStarted < MaxSideAsks /\ ClickQuickPrompt(p)
    \/ \E t \in liveTimers : chatElapsedSec < MaxSideTicks /\ progressTick(t)
    \/ \E i \in 1..Len(askReqs) : AskSettle(i)
    \/ \E i \in 1..Len(askReqs) : \E r \in AskResponses : AskContinue(i, r)
    \/ \E out \in ResultsOutcomes : ClickManager(out)
    \/ \E out \in ResultsOutcomes : MainButtonOpenManager(out)

ResultsSpec == InitResultsSpec /\ [][NextResults]_vars

(***************************************************************************)
(* Admin Mini App: the tabs and their history.  switchTab and goBack are   *)
(* functions of the history; shown is the tab whose classes switchTab      *)
(* toggled on.                                                             *)
(***************************************************************************)
\* the tabs of the page: data-tab of the .tab elements
AdminTabs == {"leads", "conversations", "history"}

\* switchTab that pushes the tab also when it is on top already
switchTabAlwaysPushing(history, tabId, pushHistory) ==
    [shown |-> tabId,
     history |-> IF pushHistory THEN Append(history, tabId) ELSE history]

\* pushHistory: the argument is not the value false (true, or left out)
switchTab(history, tabId, pushHistory) ==
    [shown |-> tabId,
     history |-> IF pushHistory /\ history[Len(history)] # tabId
                 THEN Append(history, tabId)
                 ELSE history]

\* the admin app's goBack
adminGoBack(history) ==
    IF Len(history) <= 1
    THEN switchTab(history, "leads", FALSE)
    ELSE LET popped == SubSeq(history, 1, Len(history) - 1)
         IN  switchTab(popped, popped[Len(popped)], FALSE)

AdminStep(op, after) ==
    /\ Mark(op)
    /\ tabHistory' = after.history
    /\ activeTab' = after.shown
    /\ UNCHANGED appVarsButLastOp
    /\ UNCHANGED <<errVars, askTextVars, bootVars, linkCall, managerContext, storage, host,
                   handoff>>

\* click on a tab of the top bar or of the mobile bar
TabClick(tabId) ==
    /\ tabId \in AdminTabs
    /\ Len(tabHistory) < MaxHistory
    /\ AdminStep("switchTab", switchTab(tabHistory, tabId, TRUE))

\* "history" button of a lead or of a conversation: switchTab("history")
OpenHistory ==
    /\ Len(tabHistory) < MaxHistory
    /\ AdminStep("openHistory", switchTab(tabHistory, "history", TRUE))

\* the quick-action back button
QuickBack == AdminStep("quickBack", adminGoBack(tabHistory))

\* the page as loaded: the markup decides which tab it shows
InitAdminSpec ==
    /\ InitApp
    /\ InitErr
    /\ InitAskText
    /\ InitBootOver
    /\ linkCall = NoLinkCall
    /\ managerContext = NoManagerContext
    /\ tabHistory = <<"leads">>
    /\ activeTab \in AdminTabs

NextAdmin ==
    \/ \E tabId \in AdminTabs : TabClick(tabId)
    \/ OpenHistory
    \/ QuickBack

AdminSpec == InitAdminSpec /\ [][NextAdmin]_vars

(***************************************************************************)
(* Manager context summary.  A text is a sequence of runs: R(c, n) is the  *)
(* character c written n times, no two neighbouring runs have the same     *)
(* character.  The characters are "x" (any visible character), " ", the    *)
(* line break and the ellipsis; String.length is the sum of the runs.      *)
(***************************************************************************)
MAX_MANAGER_CONTEXT_LENGTH == 900

R(c, n) == [c |-> c, n |-> n]

LineBreak == "\n"
\* the one character U+2026
Ellipsis == "ellipsis"

\* \s
IsSpace(c) == c \in {" ", LineBreak}

\* String.length; the text is halved so that long texts stay shallow
RECURSIVE TextLen(_)
TextLen(t) ==
    IF t = <<>> THEN 0
    ELSE IF Len(t) = 1 THEN t[1].n
    ELSE LET half == Len(t) \div 2
         IN  TextLen(SubSeq(t, 1, half)) + TextLen(SubSeq(t, half + 1, Len(t)))

\* string concatenation: the run that ends a and the run that starts b are
\* joined when they hold the same character
Cat(a, b) ==
    IF a = <<>> THEN b
    ELSE IF b = <<>> THEN a
    ELSE IF a[Len(a)].c = b[1].c
    THEN SubSeq(a, 1, Len(a) - 1) \o <<R(b[1].c, a[Len(a)].n + b[1].n)>> \o Tail(b)
    ELSE a \o b

\* the texts of a list, concatenated
RECURSIVE CatAll(_)
CatAll(ts) ==
    IF ts = <<>> THEN <<>>
    ELSE IF Len(ts) = 1 THEN ts[1]
    ELSE LET half == Len(ts) \div 2
         IN  Cat(CatAll(SubSeq(ts, 1, half)), CatAll(SubSeq(ts, half + 1, Len(ts))))

\* neighbouring runs of one character joined, empty runs dropped
Runs(t) == CatAll([i \in 1..Len(t) |-> IF t[i].n = 0 THEN <<>> ELSE <<t[i]>>])

\* Array.prototype.join
Join(ts, sep) ==
    CatAll([i \in 1..(2 * Len(ts) - 1) |-> IF i % 2 = 1 THEN ts[(i + 1) \div 2] ELSE sep])

\* number of leading runs of white space
SpaceRuns(t) ==
    CHOOSE k \in 0..Len(t) :
        /\ \A i \in 1..k : IsSpace(t[i].c)
        /\ k = Len(t) \/ ~IsSpace(t[k + 1].c)

TextTrimStart(t) == SubSeq(t, SpaceRuns(t) + 1, Len(t))

TextTrimEnd(t) ==
    LET k == CHOOSE j \in 0..Len(t) :
                 /\ \A i \in (j + 1)..Len(t) : IsSpace(t[i].c)
                 /\ j = 0 \/ ~IsSpace(t[j].c)
    IN  SubSeq(t, 1, k)

TextTrim(t) == TextTrimEnd(TextTrimStart(t))

\* String.prototype.slice(0, k): the runs that end within the first k
\* characters, and the part of the next run that is within them
Slice(t, k) ==
    LET whole == CHOOSE m \in 0..Len(t) :
                     /\ TextLen(SubSeq(t, 1, m)) <= k
                     /\ m = Len(t) \/ TextLen(SubSeq(t, 1, m + 1)) > k
        left == k - TextLen(SubSeq(t, 1, whole))
    IN  IF t = <<>> \/ k <= 0 THEN <<>>
        ELSE SubSeq(t, 1, whole)
             \o (IF whole < Len(t) /\ left > 0 THEN <<R(t[whole + 1].c, left)>> ELSE <<>>)

\* /\s+\n/ inside one stretch of white space: everything up to its last line
\* break, when at least one character precedes that line break
SpaceBeforeBreak(stretch) ==
    LET breaks == {i \in 1..Len(stretch) : stretch[i].c = LineBreak}
        last == CHOOSE i \in breaks : \A j \in breaks : j <= i
    IN  IF breaks = {} THEN stretch
        ELSE IF last = 1 /\ stretch[1].n = 1 THEN stretch
        ELSE <<R(LineBreak, 1)>> \o SubSeq(stretch, last + 1, Len(stretch))

\* run i of t opens a stretch of white space
OpensSpace(t, i) == IsSpace(t[i].c) /\ (i = 1 \/ ~IsSpace(t[i - 1].c))

\* the stretch of white space that run i of t opens
SpaceFrom(t, i) == SubSeq(t, i, i + SpaceRuns(SubSeq(t, i, Len(t))) - 1)

\* text.replace(/\s+\n/g, "\n")
ReplaceSpaceBeforeBreak(t) ==
    CatAll([i \in 1..Len(t) |->
               IF ~IsSpace(t[i].c) THEN <<t[i]>>
               ELSE IF OpensSpace(t, i) THEN SpaceBeforeBreak(SpaceFrom(t, i))
               ELSE <<>>])

\* text.replace(/\s+/g, " ")
CollapseSpace(t) ==
    CatAll([i \in 1..Len(t) |->
               IF ~IsSpace(t[i].c) THEN <<t[i]>>
               ELSE IF OpensSpace(t, i) THEN <<R(" ", 1)>>
               ELSE <<>>])

\* cut that keeps one character too many
trimForManagerCutAtLimit(text) ==
    LET normalized == TextTrim(ReplaceSpaceBeforeBreak(text))
    IN  IF TextLen(normalized) <= MAX_MANAGER_CONTEXT_LENGTH THEN normalized
        ELSE Cat(TextTrimEnd(Slice(normalized, MAX_MANAGER_CONTEXT_LENGTH)),
                 <<R(Ellipsis, 1)>>)

trimForManager(text) ==
    LET normalized == TextTrim(ReplaceSpaceBeforeBreak(text))
    IN  IF TextLen(normalized) <= MAX_MANAGER_CONTEXT_LENGTH THEN normalized
        ELSE Cat(TextTrimEnd(Slice(normalized, MAX_MANAGER_CONTEXT_LENGTH - 1)),
                 <<R(Ellipsis, 1)>>)

\* the fixed phrases, by the length of their words
Words(lengths) == Join([i \in 1..Len(lengths) |-> <<R("x", lengths[i])>>], <<R(" ", 1)>>)

Greeting == Words(<<13, 3, 6, 2, 11, 4, 3, 4, 5>>)
ClientLabel == Cat(Words(<<7>>), <<R(" ", 1)>>)
AnonymousClient == Words(<<12, 4, 3>>)
CriteriaLabel == Cat(Words(<<8, 8>>), <<R(" ", 1)>>)
ProductsLabel == Cat(Words(<<11, 10>>), <<R(" ", 1)>>)
DialogueLabel == Cat(Words(<<9, 7, 8>>), <<R(" ", 1)>>)
RequestLine == Words(<<8, 9, 1, 4, 12, 10, 9>>)
NoProductsText == Words(<<6, 4, 3, 10, 10>>)
UntitledProductsText == Words(<<6, 5, 8, 10>>)
NoDialogueText == Words(<<1, 4, 3, 3, 2, 4, 10, 7>>)
NotSetText == Words(<<2, 7>>)

\* compactValue(value) for a value that is no key of the map
compactValue(value) == IF value = Null THEN NotSetText ELSE <<R("x", 1)>>

\* goalMap, subjectMap, formatMap: the length of each label
CriteriaLabels ==
    [ege |-> 3, oge |-> 3, olympiad |-> 9, camp |-> 6, base |-> 12,
     math |-> 10, physics |-> 6, informatics |-> 11,
     online |-> 6, offline |-> 4, hybrid |-> 6]

CriteriaLabelText(value) ==
    IF value \in DOMAIN CriteriaLabels THEN <<R("x", CriteriaLabels[value])>>
    ELSE compactValue(value)

compactCriteriaSummary(crit) ==
    LET grade == IF crit.grade # NoGrade
                 THEN Cat(<<R("x", IF crit.grade >= 10 THEN 2 ELSE 1)>>,
                          <<R(" ", 1), R("x", 3)>>)
                 ELSE Words(<<5, 2, 6>>)
    IN  CatAll(<<grade,
                 <<R("x", 1), R(" ", 1), R("x", 5), R(" ", 1)>>, CriteriaLabelText(crit.goal),
                 <<R("x", 1), R(" ", 1), R("x", 8), R(" ", 1)>>, CriteriaLabelText(crit.subject),
                 <<R("x", 1), R(" ", 1), R("x", 7), R(" ", 1)>>, CriteriaLabelText(crit.format)>>)

\* results.slice(0, 3).map(title.trim()).filter(Boolean).join(" | ")
compactProductsSummary(titles) ==
    LET firstThree == SubSeq(titles, 1, Min(3, Len(titles)))
        trimmed == [i \in 1..Len(firstThree) |-> TextTrim(firstThree[i])]
        named == SelectSeq(trimmed, LAMBDA t : t # <<>>)
    IN  IF titles = <<>> THEN NoProductsText
        ELSE IF named = <<>> THEN UntitledProductsText
        ELSE Join(named, <<R(" ", 1), R("x", 1), R(" ", 1)>>)

\* the last two user messages, numbered, white space collapsed
compactDialogueSummary(userTexts) ==
    LET lastTwo == SubSeq(userTexts, Len(userTexts) - Min(2, Len(userTexts)) + 1,
                          Len(userTexts))
        numbered == [i \in 1..Len(lastTwo) |->
                        Cat(<<R("x", 2), R(" ", 1)>>, TextTrim(CollapseSpace(lastTwo[i])))]
    IN  IF userTexts = <<>> THEN NoDialogueText ELSE Join(numbered, <<R(" ", 1)>>)

\* personParts.join(" "): first_name, @username, id:<digits>
ManagerContextWho(person) ==
    LET parts == (IF person.first_name # <<>> THEN <<person.first_name>> ELSE <<>>)
                 \o (IF person.username # <<>>
                     THEN <<Cat(<<R("x", 1)>>, person.username)>> ELSE <<>>)
                 \o (IF person.idDigits > 0 THEN <<<<R("x", 3 + person.idDigits)>>>> ELSE <<>>)
    IN  IF parts = <<>> THEN AnonymousClient ELSE Join(parts, <<R(" ", 1)>>)

\* lines.join("\n")
ManagerContextLines(in) ==
    Join(<<Greeting,
           CatAll(<<ClientLabel, ManagerContextWho(in.person), <<R("x", 1)>>>>),
           CatAll(<<CriteriaLabel, compactCriteriaSummary(in.criteria), <<R("x", 1)>>>>),
           CatAll(<<ProductsLabel, compactProductsSummary(in.titles), <<R("x", 1)>>>>),
           CatAll(<<DialogueLabel, compactDialogueSummary(in.userTexts), <<R("x", 1)>>>>),
           RequestLine>>,
         <<R(LineBreak, 1)>>)

buildManagerContextSummary(in) == trimForManager(ManagerContextLines(in))

\* identities, titles and questions of the sample; the last question is
\* written with `fill` more characters
ContextPersons ==
    {[first_name |-> <<>>, username |-> <<>>, idDigits |-> 0],
     [first_name |-> <<R("x", 5)>>, username |-> <<R("x", 4)>>, idDigits |-> 9],
     [first_name |-> <<R("x", 2), R(" ", 1), R(LineBreak, 1), R("x", 2)>>, username |-> <<>>,
      idDigits |-> 0]}

ContextTitles ==
    {<<>>,
     << <<R(" ", 1)>> >>,
     << <<R("x", 5)>>, <<R(" ", 1), R("x", 2), R(" ", 2), R(LineBreak, 2), R("x", 3)>> >>,
     << <<R("x", 1)>>, <<R("x", 2)>>, <<R("x", 3)>>, <<R("x", 400)>> >>}

\* the last questions of the chat; one of them is written with `fill` more
\* characters
FilledQuestions(shape, fill) ==
    IF shape = 1 THEN << <<R("x", 1 + fill)>> >>
    ELSE << <<R("x", 3)>>, <<R("x", 1 + fill), R(LineBreak, 1), R(" ", 2), R("x", 2)>> >>

LongQuestions == << <<R("x", 5)>>, <<R("x", 700)>>, <<R("x", 3), R(Ellipsis, 1)>> >>

ContextInput(person, crit, titles, userTexts) ==
    [person |-> person, criteria |-> crit, titles |-> titles, userTexts |-> userTexts]

\* the input whose composed text misses (d < 0) or exceeds (d > 0) the limit
\* by d characters
FilledInput(person, crit, titles, shape, d) ==
    LET short == TextLen(ManagerContextLines(
                     ContextInput(person, crit, titles, FilledQuestions(shape, 0))))
    IN  ContextInput(person, crit, titles,
                     FilledQuestions(shape, MAX_MANAGER_CONTEXT_LENGTH - short + d))

ContextInputs ==
    {ContextInput(person, crit, titles, userTexts) :
        person \in ContextPersons, crit \in {InitCriteria, CompleteCriteria},
        titles \in ContextTitles, userTexts \in {<<>>, LongQuestions}}
    \cup {FilledInput(person, crit, titles, shape, d) :
            person \in ContextPersons, crit \in {InitCriteria, CompleteCriteria},
            titles \in ContextTitles, shape \in 1..2,
            d \in (0 - MaxOverflow)..MaxOverflow}

BuildContext ==
    /\ ~managerContext.done
    /\ managerContext' =
           [managerContext EXCEPT !.done = TRUE,
                                  !.composed = ManagerContextLines(managerContext.in),
                                  !.out = buildManagerContextSummary(managerContext.in)]
    /\ UNCHANGED appVars
    /\ UNCHANGED <<errVars, askTextVars, bootVars, linkCall, adminVars, storage, host, handoff>>

InitContextSpec ==
    /\ InitApp
    /\ InitErr
    /\ InitAskText
    /\ InitBootOver
    /\ linkCall = NoLinkCall
    /\ InitAdmin
    /\ \E in \in ContextInputs :
          managerContext = [in |-> in, done |-> FALSE, composed |-> <<>>, out |-> <<>>]

NextContext == BuildContext

ContextSpec == InitContextSpec /\ [][NextContext]_vars

(***************************************************************************)
(* Properties of the texts of an ask.                                      *)
(***************************************************************************)
Contains(text, part) ==
    \E i \in 0..(Len(text) - Len(part)) : SubSeq(text, i + 1, i + Len(part)) = part

ShownTexts(texts) ==
    {texts.error} \cup {texts.messages[i].text : i \in 1..Len(texts.messages)}
                 \cup {texts.messages[i].meta : i \in 1..Len(texts.messages)}

\* a non-2xx JSON object whose only message-bearing member is a string detail
OnlyStringDetail(outcome) ==
    /\ outcome.kind = "non_2xx"
    /\ outcome.response.body.json
    /\ outcome.response.body.isRecord
    /\ ~NonBlankString(outcome.response.body.user_message)
    /\ outcome.response.body.detail.t = "str"
    /\ Trim(outcome.response.body.detail.s) # <<>>

\* C11: for an error body carrying only a (non-blank) string detail, the
\* user-facing message is the trimmed detail if and only if the status is
\* below 500, and the generic fallback otherwise; a 5xx string detail is in
\* no text shown (state.error, transcript entries).
C11_StringDetailTrustedBelow500 ==
    (askOut.done /\ OnlyStringDetail(askIn)) =>
        LET d == Trim(askIn.response.body.detail.s)
            st == askIn.response.status
            t == askOut.texts
        IN  /\ st < 500 => (t.apiError.userMessage = d /\ Contains(t.error, d))
            /\ st >= 500 => /\ t.apiError.userMessage = fallbackMessage
                            /\ \A x \in ShownTexts(t) : ~Contains(x, d)

C11_Witness ==
    /\ askOut.done
    /\ OnlyStringDetail(askIn)
    /\ askIn.response.status >= 500
    /\ askOut.texts.apiError.requestId # <<>>
    /\ Len(askOut.texts.messages) = 1

\* the correlation ids the backend put into the response
SuppliedIds(outcome) ==
    (IF Trim(outcome.header) # <<>> THEN {Trim(outcome.header)} ELSE {})
    \cup (IF outcome.kind = "2xx" /\ outcome.payload.shape = "record"
             /\ NonBlankString(outcome.payload.request_id)
          THEN {Trim(outcome.payload.request_id.s)} ELSE {})
    \cup (IF outcome.kind = "non_2xx" /\ outcome.response.body.json
             /\ outcome.response.body.isRecord
          THEN (IF NonBlankString(outcome.response.body.request_id)
                THEN {Trim(outcome.response.body.request_id.s)} ELSE {})
               \cup (IF outcome.response.body.detail.t = "obj"
                        /\ NonBlankString(outcome.response.body.detail.request_id)
                     THEN {Trim(outcome.response.body.detail.request_id.s)} ELSE {})
          ELSE {})

\* C12: when the backend supplied a correlation id (header or body; success,
\* non-2xx, or 2xx with ok=false), one of the supplied ids is in the note of
\* the assistant entry on success, and in both state.error and the apologetic
\* entry on failure.
C12_CorrelationIdIsShown ==
    (askOut.done /\ SuppliedIds(askIn) # {}) =>
        LET t == askOut.texts
            last == t.messages[Len(t.messages)]
        IN  IF t.thrown
            THEN \E id \in SuppliedIds(askIn) : Contains(t.error, id) /\ Contains(last.text, id)
            ELSE \E id \in SuppliedIds(askIn) : Contains(last.meta, id)

(***************************************************************************)
(* Properties of the assistant ask.                                        *)
(***************************************************************************)
SubmitOps == {"clickSend", "clickDockSend", "mainButton", "clickQuickPrompt"}

AssistantCount(msgs) == Cardinality({i \in 1..Len(msgs) : msgs[i].role = "assistant"})

\* C1: whenever no ask is in flight, the transcript holds exactly two
\* entries per completed ask.
C1_TranscriptIsTwicePerAsk ==
    (~chatLoading) => Len(chatMessages) = 2 * asksCompleted

\* C2: the completion of an ask appends exactly one assistant-role entry,
\* whatever the outcome.
C2_OneAssistantEntryPerAsk ==
    [][lastOp'.op = "askDone" =>
          AssistantCount(chatMessages') = AssistantCount(chatMessages) + 1]_vars

\* C3: a submission attempted while chatLoading is true, by any entry
\* point, leaves chatMessages and chatInput unchanged.
C3_SubmitWhileLoadingIsNoOp ==
    [][(chatLoading /\ lastOp'.op \in SubmitOps) =>
          UNCHANGED <<chatMessages, chatInput>>]_vars

\* C4: at most one ask request is in flight; a request is issued only by a
\* submission made while none is in flight and with a non-blank question; a
\* submission made while one is in flight issues nothing and leaves the
\* in-flight request, its ticker and the busy flag alone; a completion
\* issues no request (nothing was queued).
C4_SingleAskInFlight ==
    /\ [](Len(askReqs) <= 1)
    /\ [][/\ (asksStarted' # asksStarted =>
                 /\ ~chatLoading
                 /\ lastOp'.op \in SubmitOps
                 /\ asksStarted' = asksStarted + 1
                 /\ askReqs' = Append(askReqs, askReqs'[Len(askReqs')])
                 /\ Trim(askReqs'[Len(askReqs')].question) # <<>>)
          /\ (Len(askReqs') > Len(askReqs) => asksStarted' # asksStarted)
          /\ ((chatLoading /\ lastOp'.op \in SubmitOps) =>
                 UNCHANGED <<askReqs, asksStarted, chatLoading, chatMessages,
                             liveTimers, chatProgressTimer, chatElapsedSec>>)
          /\ ((lastOp'.op \in SubmitOps \ {"clickQuickPrompt"} /\ Trim(chatInput) = <<>>) =>
                 UNCHANGED <<askReqs, asksStarted, chatLoading, chatMessages>>)
          /\ (lastOp'.op = "askDone" =>
                 /\ asksStarted' = asksStarted
                 /\ Len(askReqs') = Len(askReqs) - 1)]_vars

\* a quick prompt was clicked while an ask was in flight: still one request
C4_Witness ==
    /\ lastOp.op = "clickQuickPrompt"
    /\ chatLoading
    /\ chatInput # <<>>
    /\ Len(askReqs) = 1
    /\ asksStarted = 1

(***************************************************************************)
(* Properties of async completions.                                        *)
(***************************************************************************)
GoodProducts(resp) ==
    /\ resp.kind = "success"
    /\ Len(resp.products) > 0
    /\ FirstBad(resp.products) = 0

\* C5: a completion is applied to whatever the state is when it arrives: a
\* successful search replaces results and forces the results view from any
\* view, an ask completion appends its assistant entry and replaces results
\* when it carries products, whatever the view.
C5_NoGenerationGuard ==
    /\ (lastOp.op = "catalogDone" /\ lastOp.resp.kind = "success") =>
          /\ view = "results"
          /\ results = lastOp.resp.items
    /\ lastOp.op = "askDone" =>
          /\ Len(chatMessages) > 0
          /\ chatMessages[Len(chatMessages)].role = "assistant"
          /\ GoodProducts(lastOp.resp) => results = MapItems(lastOp.resp.products)

\* a search answered after the user moved on to the chat and started an ask
C5_Witness ==
    /\ lastOp.op = "catalogDone"
    /\ lastOp.from = "chat"
    /\ lastOp.resp.kind = "success"
    /\ Len(lastOp.resp.items) > 0
    /\ view = "results"
    /\ results = lastOp.resp.items
    /\ chatLoading

\* C6: with chatLoading false the elapsed counter is 0, the caption is the
\* first one, no interval handle is held and no interval is live.
C6_IdleTickerIsReset ==
    (~chatLoading) =>
        /\ chatElapsedSec = 0
        /\ chatProgressText = CHAT_PROGRESS_STEPS[1]
        /\ chatProgressTimer = NoTimer
        /\ liveTimers = {}

\* an ask has just left Sending
C6_Witness ==
    /\ lastOp.op = "askDone"
    /\ ~chatLoading
    /\ asksCompleted = MaxAsks
    /\ chatElapsedSec = 0

AskSettled == \E i \in 1..Len(askReqs) : askReqs[i].settled
CatalogSettled == \E i \in 1..Len(catalogReqs) : catalogReqs[i].settled

\* C7: once the request of an ask (of a search) has settled, chatLoading
\* (loading) eventually becomes false.
C7_BusyFlagsEventuallyCleared ==
    /\ (AskSettled /\ chatLoading) ~> ~chatLoading
    /\ (CatalogSettled /\ loading) ~> ~loading

\* both continuations have run and both flags are clear
C7_Witness ==
    /\ lastOp.op = "catalogDone"
    /\ lastOp.resp.kind # "success"
    /\ ~loading
    /\ ~chatLoading
    /\ asksCompleted >= 1

(***************************************************************************)
(* Properties of the catalog search and of navigation.                     *)
(***************************************************************************)
\* C8: a search request is issued only from a state with all four criteria
\* set and loading false, by the in-page button or the host main button, and
\* carries those criteria; at most one search is in flight.
C8_SearchOnlyWhenCompleteAndIdle ==
    /\ [](Len(catalogReqs) <= 1)
    /\ [][Len(catalogReqs') > Len(catalogReqs) =>
             /\ isCriteriaComplete(criteria)
             /\ ~loading
             /\ lastOp'.op \in {"clickSubmit", "mainButton"}
             /\ catalogReqs' = Append(catalogReqs, [params |-> criteria, settled |-> FALSE])]_vars

\* the host fired the picker handler while a search was in flight
C8_Witness ==
    /\ lastOp.op = "mainButton"
    /\ view = "picker"
    /\ loading
    /\ Len(catalogReqs) = 1
    /\ catalogReqs[1].settled

\* C9: the view after goBack is determined by the view it was called in and
\* by whether results is non-empty.
C9_GoBackTable ==
    lastOp.op = "goBack" =>
        /\ (lastOp.from = "chat" /\ Len(results) > 0) => view = "results"
        /\ (lastOp.from = "chat" /\ Len(results) = 0) => view = "picker"
        /\ lastOp.from = "results" => view = "picker"
        /\ lastOp.from = "picker" => view = "home"
        /\ lastOp.from = "home" => view = "home"

\* back from the chat with results present
C9_Witness ==
    /\ lastOp.op = "goBack"
    /\ lastOp.from = "chat"
    /\ Len(results) > 0
    /\ view = "results"
(***************************************************************************)
(* Properties of the manager hand-off.                                     *)
(***************************************************************************)
HandoffOps == {"clickManager", "mainButtonManager"}

\* the last handler was a hand-off that reached the structured flow
StructuredFlowRan == lastOp.op \in HandoffOps /\ handoff.built # "none"

CallIndexes(calls, fns) == {i \in 1..Len(calls) : calls[i].fn \in fns}

Openers == {"openTelegramLink", "windowOpen"}

\* the size of the texts in bytes (UTF-8): two bytes for a Cyrillic letter
Utf8Bytes ==
    [text \in PayloadTexts |->
        CASE text = "LongCyrillic" -> 2400
          [] text = consultationNote -> 132
          [] OTHER -> Utf16Units[text]]

\* C13: buildPayload returns no payload whenever the serialized payload is
\* 4096 bytes or larger, also when multi-byte text makes the byte size
\* exceed the character count.
C13_OversizedBytesRejected ==
    StructuredFlowRan =>
        (StringifiedSize(MiniAppPayload("consultation_request", consultationNote), Utf8Bytes)
            >= PayloadLimit
         => handoff.built = "rejected")

\* C14: when buildPayload returned no payload, sendData is not invoked in
\* that hand-off and state.error is set; every string passed to sendData is
\* the serialization of the whole payload and passed the size check.
C14_NoPayloadNoSend ==
    StructuredFlowRan =>
        /\ handoff.built = "rejected" =>
              /\ CallIndexes(handoff.calls, {"sendData", "close"}) = {}
              /\ handoff.flowError = "request_not_prepared"
              /\ error # Null
        /\ \A i \in CallIndexes(handoff.calls, {"sendData"}) :
              /\ handoff.calls[i].data = MiniAppPayload("consultation_request", consultationNote)
              /\ StringifiedSize(handoff.calls[i].data, Utf16Units) < PayloadLimit

C14_Witness ==
    /\ StructuredFlowRan
    /\ handoff.built = "rejected"
    /\ host.sendData
    /\ error # Null

StructuredFlowFailed ==
    \/ handoff.built = "rejected"
    \/ ~host.sendData
    \/ \E i \in CallIndexes(handoff.calls, {"sendData"}) : handoff.calls[i].threw

\* C16: when the direct links failed and the structured flow failed as well,
\* the hand-off ends with state.error set, no sendData call has returned, and
\* nothing is tried again: each link was attempted once, sendData at most once.
C16_DoubleFailureEndsWithError ==
    (StructuredFlowRan /\ StructuredFlowFailed) =>
        /\ error # Null
        /\ \A i \in CallIndexes(handoff.calls, {"sendData"}) : handoff.calls[i].threw
        /\ CallIndexes(handoff.calls, {"close"}) = {}
        /\ Cardinality(CallIndexes(handoff.calls, {"sendData"})) <= 1
        /\ Cardinality(CallIndexes(handoff.calls, {"windowOpen"})) = Len(preferredLinks)
        /\ Cardinality(CallIndexes(handoff.calls, {"openTelegramLink"})) <= Len(preferredLinks)

C16_Witness ==
    /\ StructuredFlowRan
    /\ \E i \in CallIndexes(handoff.calls, {"sendData"}) : handoff.calls[i].threw
    /\ error # Null

\* C17: once a payload is built, the sender without sendData on the host
\* sets an error and calls neither sendData nor close; with sendData that
\* returns, the payload is sent exactly once and close is called only after
\* the send, at most once.
C17_SendFailsFastOrSendsOnce ==
    (StructuredFlowRan /\ handoff.built = "accepted") =>
        LET calls == handoff.calls
            sends == CallIndexes(calls, {"sendData"})
            closes == CallIndexes(calls, {"close"})
        IN  /\ ~host.sendData =>
                  /\ handoff.flowError = "send_unavailable"
                  /\ sends = {} /\ closes = {}
            /\ (host.sendData /\ \A i \in sends : ~calls[i].threw) =>
                  /\ Cardinality(sends) = 1
                  /\ \A i \in sends : calls[i].data = handoff.payload
                  /\ Cardinality(closes) <= 1
                  /\ \A k \in closes : \A i \in sends : i < k

C17_Witness ==
    /\ StructuredFlowRan
    /\ handoff.built = "accepted"
    /\ \E i \in CallIndexes(handoff.calls, {"sendData"}) : ~handoff.calls[i].threw
    /\ \E k \in CallIndexes(handoff.calls, {"close"}) : ~handoff.calls[k].threw
    /\ handoff.flowError = "request_sent"

(***************************************************************************)
(* Properties of the host main button.                                     *)
(***************************************************************************)
\* C18: after every render the host holds at most one click handler of the
\* main button, the one the last render() attached; on the home view the
\* button is hidden and holds none -- also on a host whose offClick throws.
C18_SingleCurrentSubscription ==
    /\ Len(mainButton.handlers) <= 1
    /\ mainButton.handlers =
          (IF mainButtonHandler = NoHandler THEN <<>> ELSE <<mainButtonHandler>>)
    /\ mainButtonHandler = syncTelegramMainButton(dom.view)
    /\ dom.view = "home" => (~mainButton.visible /\ mainButton.handlers = <<>>)

(***************************************************************************)
(* Properties of the onboarding.                                           *)
(***************************************************************************)
\* C19: in every transition coachmarkStep stays, increases, or becomes -1;
\* it never goes from a value >= 0 to a smaller value >= 0.
C19_StepNeverDecreases ==
    [][coachmarkStep' >= coachmarkStep \/ coachmarkStep' = -1]_vars

C19_Witness ==
    /\ lastOp.op = "catalogDone"
    /\ lastOp.resp.kind = "success"
    /\ coachmarkStep = 2
    /\ ~storage.flag

\* C20: while the onboarding is not dismissed, coachmarkStep advances only
\* in a criteria selection: it leaves 0 only when grade is set after the
\* transition, and reaches 2 only when goal is set after it.
C20_AdvanceOnlyByCriteria ==
    [][(coachmarkStep >= 0 /\ coachmarkStep' > coachmarkStep) =>
          /\ lastOp'.op = "select"
          /\ coachmarkStep = 0 => criteria'.grade # NoGrade
          /\ coachmarkStep' = 2 => criteria'.goal # Null
     ]_vars

(***************************************************************************)
(* Properties of the onboarding across sessions.                           *)
(***************************************************************************)
BootOps == {"boot", "reload"}

\* the last handler dismissed the onboarding
Dismissal == coachmarkStep >= 0 /\ coachmarkStep' = -1 /\ lastOp'.op \notin BootOps

\* within a session a step of -1 stays -1
DismissedStaysDismissed ==
    (coachmarkStep = -1 /\ lastOp'.op \notin BootOps) => coachmarkStep' = -1

\* a boot that reads the dismissed flag starts dismissed
BootReadsDismissedFlag ==
    (lastOp.op \in BootOps /\ storage.flag /\ ~storage.getThrows) => coachmarkStep = -1

\* C21 as stated: once coachmarkStep is -1 it stays -1 under every later
\* action of the session, the dismissed flag is in storage right after the
\* dismissal, and a boot that reads the flag starts with coachmarkStep = -1.
C21_DismissalAlwaysPersisted ==
    /\ [][DismissedStaysDismissed]_vars
    /\ [][Dismissal => storage'.flag]_vars
    /\ []BootReadsDismissedFlag

\* C21 amended: as above, but the dismissal writes the flag only when
\* setItem does not throw; a throwing write is swallowed, storage is left as
\* it was and the step is -1 for the rest of the session only.
C21_DismissalPersistedWhenWritable ==
    /\ [][DismissedStaysDismissed]_vars
    /\ [][Dismissal =>
             storage' = (IF storage.setThrows THEN storage
                         ELSE [storage EXCEPT !.flag = TRUE])]_vars
    /\ [][lastOp'.op \notin BootOps \cup {"coachmarkSkip", "coachmarkNext"} =>
             UNCHANGED storage]_vars
    /\ []BootReadsDismissedFlag

\* the last coachmark was closed with "got it" and the flag is in storage
C21_Witness ==
    /\ lastOp.op = "coachmarkNext"
    /\ coachmarkStep = -1
    /\ storage.flag
    /\ ~storage.getThrows
    /\ ~storage.setThrows

\* C22: a boot with the flag absent, or with a storage whose read throws,
\* starts with coachmarkStep = 0.
C22_AbsentOrUnreadableStartsOnboarding ==
    (lastOp.op \in BootOps /\ (~storage.flag \/ storage.getThrows)) => coachmarkStep = 0

(***************************************************************************)
(* Properties of the progress ticker.                                      *)
(***************************************************************************)
\* the caption the stated rule gives after k ticks: one caption per 3 ticks,
\* the last one from 6 ticks on
CaptionAfter(k) ==
    IF k < 3 THEN CHAT_PROGRESS_STEPS[1]
    ELSE IF k < 6 THEN CHAT_PROGRESS_STEPS[2]
    ELSE CHAT_PROGRESS_STEPS[3]

CaptionPosition(text) == CHOOSE i \in 1..Len(CHAT_PROGRESS_STEPS) : CHAT_PROGRESS_STEPS[i] = text

AskStarts == asksStarted' # asksStarted

\* C23: an ask starts with elapsed counter 0; each tick adds one to it and
\* nothing else changes it while the ask lasts, so after k ticks it is k; the
\* caption is the one at index min(last, floor(k / 3)), never moves back
\* within an ask, and is the last one for every k >= 6.
C23_CaptionFollowsElapsed ==
    /\ [](chatLoading => chatProgressText = CaptionAfter(chatElapsedSec))
    /\ [](chatElapsedSec >= 6 =>
             chatProgressText = CHAT_PROGRESS_STEPS[Len(CHAT_PROGRESS_STEPS)])
    /\ [][/\ AskStarts => chatElapsedSec' = 0
          /\ lastOp'.op = "tick" => chatElapsedSec' = chatElapsedSec + 1
          /\ (chatLoading /\ chatLoading' /\ lastOp'.op # "tick") =>
                 chatElapsedSec' = chatElapsedSec
          /\ (chatLoading /\ chatLoading' /\ ~AskStarts) =>
                 CaptionPosition(chatProgressText') >= CaptionPosition(chatProgressText)
       ]_vars

\* the seventh tick of one ask: the caption stays the last one
C23_Witness ==
    /\ lastOp.op = "tick"
    /\ chatLoading
    /\ chatElapsedSec = 7
    /\ chatProgressText = CHAT_PROGRESS_STEPS[3]

\* createChatView puts the progress card on the page under the condition
\* that disables the textarea (state.chatLoading, in the chat view)
ProgressShown == dom.view = "chat" /\ dom.textareaDisabled

\* C24 as stated: no render shows the progress indicator while the elapsed
\* counter of the ask has not been ticked.
C24_FirstTickBeforeProgressRender ==
    ProgressShown => chatElapsedSec >= 1

\* C24 amended: the ticker is started before the first progress render of an
\* ask (counter 0, first caption, one interval registered); that render is
\* the one at the start of the ask, it shows the un-ticked counter, and every
\* tick comes after it, while the ask lasts.
C24_TickerStartBeforeProgressRender ==
    /\ [][AskStarts =>
             /\ chatElapsedSec' = 0
             /\ chatProgressText' = CHAT_PROGRESS_STEPS[1]
             /\ chatProgressTimer' # NoTimer
             /\ liveTimers' = {chatProgressTimer'}
             /\ dom'.view = "chat" /\ dom'.textareaDisabled
             /\ lastOp'.op # "tick"]_vars
    /\ [][lastOp'.op = "tick" => (chatLoading /\ asksStarted > asksCompleted)]_vars

\* the progress card is on the page and the interval has not fired yet
C24_Witness ==
    /\ lastOp.op = "clickQuickPrompt"
    /\ ProgressShown
    /\ chatElapsedSec = 0
    /\ liveTimers # {}
    /\ asksStarted = asksCompleted + 1

(***************************************************************************)
(* Properties of the two busy flags.                                       *)
(***************************************************************************)
SearchStarts == Len(catalogReqs') > Len(catalogReqs)

\* C25: the start and the completion of an ask leave loading as it is, the
\* start and the completion of a search leave chatLoading as it is; a
\* submission is accepted whatever the other flag is: a quick prompt made
\* while no ask is in flight starts an ask, a press of the submit button or
\* of the picker main button with complete criteria and no search in flight
\* starts a search.
C25_BusyFlagsIndependent ==
    [][/\ (AskStarts \/ lastOp'.op = "askDone") => loading' = loading
       /\ (SearchStarts \/ lastOp'.op = "catalogDone") => chatLoading' = chatLoading
       /\ (lastOp'.op = "clickQuickPrompt" /\ ~chatLoading) => (AskStarts /\ chatLoading')
       /\ (lastOp'.op = "clickSubmit"
             \/ (lastOp'.op = "mainButton" /\ mainButtonHandler = "picker"
                   /\ isCriteriaComplete(criteria) /\ ~loading)) =>
              (SearchStarts /\ loading')
       /\ lastOp'.op = "askDone" => ~chatLoading'
       /\ lastOp'.op = "catalogDone" => ~loading'
    ]_vars

\* a quick prompt started an ask while a search was in flight
C25_Witness ==
    /\ lastOp.op = "clickQuickPrompt"
    /\ chatInput = <<>>
    /\ asksStarted = 1
    /\ Len(askReqs) = 1
    /\ Len(catalogReqs) = 1
    /\ loading
    /\ chatLoading

(***************************************************************************)
(* Properties of retrying.                                                 *)
(***************************************************************************)
\* handlers the user triggers that can issue a request
AskEntryOps == {"clickSend", "clickDockSend", "mainButton", "clickQuickPrompt"}
SearchEntryOps == {"clickSubmit", "mainButton"}

\* steps that are not a user action: transport, continuations, the ticker
BackgroundOps == {"askSettle", "askDone", "catalogSettle", "catalogDone", "tick"}

\* C26: every ask request belongs to one accepted submission (requests in
\* flight plus completed asks equal the accepted submissions); a request is
\* issued only in a user action, one per action; no background step (a
\* completion, failed or not, the transport, the ticker) issues a request, so
\* after a failure nothing is sent until the user acts again.
C26_NothingIsAutoRetried ==
    /\ [](asksStarted = asksCompleted + Len(askReqs))
    /\ [][/\ Len(askReqs') > Len(askReqs) =>
                /\ lastOp'.op \in AskEntryOps
                /\ Len(askReqs') = Len(askReqs) + 1
                /\ asksStarted' = asksStarted + 1
                /\ catalogReqs' = catalogReqs
          /\ SearchStarts =>
                /\ lastOp'.op \in SearchEntryOps
                /\ Len(catalogReqs') = Len(catalogReqs) + 1
                /\ askReqs' = askReqs
          /\ lastOp'.op \in BackgroundOps =>
                /\ Len(askReqs') <= Len(askReqs)
                /\ Len(catalogReqs') <= Len(catalogReqs)
                /\ asksStarted' = asksStarted
          /\ lastOp'.op = "askDone" => Len(askReqs') = Len(askReqs) - 1
          /\ lastOp'.op = "catalogDone" => Len(catalogReqs') = Len(catalogReqs) - 1
       ]_vars

\* the ask the user repeated after a failure has failed as well: nothing is
\* in flight
C26_Witness ==
    /\ lastOp.op = "askDone"
    /\ lastOp.resp.kind = "network_error"
    /\ asksCompleted = 2
    /\ error # Null
    /\ askReqs = <<>>
    /\ catalogReqs = <<>>

(***************************************************************************)
(* Properties of the criteria picker.                                      *)
(***************************************************************************)
AllFourSet ==
    criteria.grade # NoGrade /\ criteria.goal # Null /\ criteria.subject # Null
        /\ criteria.format # Null

\* C28: after any sequence of selections isComplete, as the page shows it
\* (the submit button of the picker is enabled unless a search is in
\* flight), is true exactly when the four fields are set; a selection
\* writes one of the four fields and leaves the other three and brand alone.
C28_CompleteIffAllFourSet ==
    /\ [](dom.view = "picker" => (dom.submitDisabled <=> (~AllFourSet \/ loading)))
    /\ [][lastOp'.op = "select" =>
             /\ criteria'.brand = criteria.brand
             /\ \E f \in CriteriaFields :
                   \A g \in CriteriaFields \ {f} : criteria'[g] = criteria[g]]_vars
    /\ [][lastOp'.op # "select" => criteria' = criteria]_vars

\* a field was re-selected after a search with complete criteria
C28_Witness ==
    /\ lastOp.op = "select"
    /\ Len(results) > 0
    /\ dom.view = "picker"
    /\ ~dom.submitDisabled
    /\ criteria.grade = 11
    /\ criteria.goal = "oge"

(***************************************************************************)
(* Properties of the error line.                                           *)
(***************************************************************************)
NavigationOps == {"navigateTo", "goBack"}

\* C27: state.error is null right after every navigation (navigateTo,
\* goBack) and right after every newly started action (a criteria selection,
\* the start of a search, the start of an ask), whatever it was before.
C27_ErrorClearedByNavigationAndNewAction ==
    [][(lastOp'.op \in NavigationOps \cup {"select"} \/ SearchStarts \/ AskStarts) =>
          error' = Null]_vars

\* the user left the chat after the only ask failed: the error is gone
C27_Witness ==
    /\ lastOp.op = "goBack"
    /\ lastOp.from = "chat"
    /\ asksCompleted = 1
    /\ Len(chatMessages) = 2
    /\ chatMessages[2] = ApologyMessage
    /\ catalogReqs = <<>>
    /\ error = Null

(***************************************************************************)
(* Properties of the results view and of the manager offer.                *)
(***************************************************************************)
CatalogSucceeded == lastOp.op = "catalogDone" /\ lastOp.resp.kind = "success"

\* C29: right after every successful catalog-search completion the view is
\* results and state.results is the response's items in their order, the
\* empty list included; in the results view the summary card names
\* results[0] exactly when matchQuality is "strong" and results is non-empty.
C29_SearchShowsItemsAndStrongMatch ==
    /\ CatalogSucceeded => (view = "results" /\ results = lastOp.resp.items)
    /\ dom.view = "results" =>
          /\ resultSummary.kind = "strong_match" <=>
                 (matchQuality = "strong" /\ Len(results) > 0)
          /\ resultSummary.kind = "strong_match" => resultSummary.text = results[1].title

\* a search graded strong came back with items A, B: the card names A
C29_Witness ==
    /\ CatalogSucceeded
    /\ lastOp.resp.match_quality = "strong"
    /\ Len(results) = 2
    /\ results[1].title = "A"
    /\ dom.view = "results"
    /\ resultSummary = [kind |-> "strong_match", text |-> "A"]

AskSucceededWithOffer ==
    /\ lastOp.op = "askDone"
    /\ lastOp.resp.kind = "success"
    /\ FirstBad(lastOp.resp.products) = 0
    /\ lastOp.resp.manager_offer.present

\* C30: right after an ask succeeds with a response that carries a manager
\* offer, managerRecommended, managerMessage and managerCallToAction equal the
\* offer's recommended, message and call_to_action, and so agree with
\* lastManagerOffer.
C30_MirroredFieldsReplacedByOffer ==
    AskSucceededWithOffer =>
        /\ managerRecommended = lastOp.resp.manager_offer.recommended
        /\ managerMessage = lastOp.resp.manager_offer.message
        /\ managerCallToAction = lastOp.resp.manager_offer.call_to_action
        /\ lastManagerOffer =
               ManagerOffer(managerRecommended, managerMessage, managerCallToAction)

(***************************************************************************)
(* Properties of openExternalLink.                                         *)
(***************************************************************************)
LinkTarget == TrimUrl(linkCall.url)

HostOpenerOf(target) == IF IsTelegramLink(target) THEN "openTelegramLink" ELSE "openLink"

CompletedCalls == {i \in 1..Len(linkCall.calls) : ~linkCall.calls[i].threw}

WindowOpens == {i \in 1..Len(linkCall.calls) : linkCall.calls[i].fn = "windowOpen"}

\* C31: openExternalLink returns true exactly when one opener call completed
\* without throwing, and false when the URL is blank or every attempted
\* opener threw; a t.me / tg:// link goes to openTelegramLink if the host has
\* it, any other URL to openLink if the host has it; when that opener is
\* missing or throws, window.open is called; when it completes, window.open
\* is not called.
C31_OpenExternalLinkContract ==
    linkCall.done =>
        LET calls == linkCall.calls
            opener == HostOpenerOf(LinkTarget)
            present == linkCall.webApp[opener]
        IN  /\ linkCall.ok <=> Cardinality(CompletedCalls) = 1
            /\ Cardinality(CompletedCalls) <= 1
            /\ ~linkCall.ok <=> (LinkTarget = "" \/ \A i \in 1..Len(calls) : calls[i].threw)
            /\ LinkTarget = "" => calls = <<>>
            /\ \A i \in 1..Len(calls) : calls[i].link = LinkTarget
            /\ LinkTarget # "" =>
                  /\ present => (calls[1].fn = opener /\ calls[1].threw = linkCall.openerThrows)
                  /\ ~present => (Len(calls) = 1 /\ calls[1].fn = "windowOpen")
                  /\ (present /\ ~calls[1].threw) => WindowOpens = {}
                  /\ (present /\ calls[1].threw) =>
                        (Len(calls) = 2 /\ calls[2].fn = "windowOpen")
                  /\ \A i \in WindowOpens : calls[i].threw = linkCall.windowThrows

\* a padded tg:// link on a host whose openTelegramLink throws: the window
\* open that follows succeeds
C31_Witness ==
    /\ linkCall.done
    /\ linkCall.url = " tg://resolve "
    /\ linkCall.ok
    /\ Len(linkCall.calls) = 2
    /\ linkCall.calls[1] = HostCall("openTelegramLink", "tg://resolve", NoPayload, TRUE)
    /\ linkCall.calls[2] = HostCall("windowOpen", "tg://resolve", NoPayload, FALSE)

(***************************************************************************)
(* Properties of the boot fetches.                                         *)
(***************************************************************************)
MetaFailed == lastOp'.op = "metaDone" /\ lastOp'.resp.kind # "success"

WhoAmIFailed == lastOp'.op = "whoamiDone" /\ lastOp'.resp.kind # "success"

\* C32: a meta fetch that fails (non-2xx, ok = false, a thrown error) leaves
\* the branding and label fields as they were, an identity fetch that fails
\* (401, another non-2xx, ok = false, a thrown error) leaves state.user as it
\* was, and neither sets state.error or changes view, criteria, results or
\* chatMessages.
C32_BootFailuresDegradeSilently ==
    [][/\ MetaFailed => branding' = branding
       /\ WhoAmIFailed => user' = user
       /\ (MetaFailed \/ WhoAmIFailed) =>
             UNCHANGED <<error, view, criteria, results, chatMessages>>]_vars

\* the identity fetch came back 401 after the metadata had been taken and an
\* ask had failed: the host's user, the new branding and the error line stay
C32_Witness ==
    /\ lastOp.op = "whoamiDone"
    /\ lastOp.resp.kind = "unauthorized"
    /\ user = HostUser
    /\ branding.brandName = <<"new">>
    /\ error # Null
    /\ Len(chatMessages) = 2

(***************************************************************************)
(* Properties of the manager context summary.                              *)
(***************************************************************************)
\* the characters of a text that are not white space
Visible(t) == Runs(SelectSeq(t, LAMBDA r : ~IsSpace(r.c)))

\* C33: the direct context summary is never longer than 900 characters; a
\* composed text that is at most 900 characters long once trimmed is returned
\* as trimmed, with every visible character of the composed text; a longer
\* one is cut at character 899, loses the white space the cut ends in, and
\* ends with the ellipsis character.
C33_SummaryWithinLimit ==
    managerContext.done =>
        LET composed == managerContext.composed
            out == managerContext.out
            trimmed == TextTrim(ReplaceSpaceBeforeBreak(composed))
            body == Slice(out, TextLen(out) - 1)
        IN  /\ TextLen(out) <= MAX_MANAGER_CONTEXT_LENGTH
            /\ TextLen(trimmed) <= MAX_MANAGER_CONTEXT_LENGTH => out = trimmed
            /\ TextLen(composed) <= MAX_MANAGER_CONTEXT_LENGTH =>
                   Visible(out) = Visible(composed)
            /\ TextLen(trimmed) > MAX_MANAGER_CONTEXT_LENGTH =>
                   /\ out[Len(out)].c = Ellipsis
                   /\ Slice(trimmed, TextLen(body)) = body
                   /\ Visible(body) = Visible(Slice(trimmed, MAX_MANAGER_CONTEXT_LENGTH - 1))
                   /\ TextTrimEnd(body) = body

\* a composed text of 905 characters: 899 of them and the ellipsis come back
C33_Witness ==
    /\ managerContext.done
    /\ TextLen(managerContext.composed) = MAX_MANAGER_CONTEXT_LENGTH + 5
    /\ TextLen(managerContext.out) = MAX_MANAGER_CONTEXT_LENGTH
    /\ managerContext.out[Len(managerContext.out)] = R(Ellipsis, 1)

(***************************************************************************)
(* Properties of the transcript.                                           *)
(***************************************************************************)
\* s is what t starts with
IsPrefix(s, t) == Len(s) <= Len(t) /\ SubSeq(t, 1, Len(s)) = s

\* the entries a step appended
Appended == SubSeq(chatMessages', Len(chatMessages) + 1, Len(chatMessages'))

\* C34: chatMessages is append-only: across every step the transcript before
\* it is a prefix of the transcript after it; it grows only in the step that
\* starts an ask, by the one user entry holding the question sent, and in
\* the step that completes an ask, by assistant entries.
C34_TranscriptAppendOnly ==
    [][/\ IsPrefix(chatMessages, chatMessages')
       /\ chatMessages' # chatMessages =>
             \/ /\ lastOp'.op \in SubmitOps
                /\ asksStarted' = asksStarted + 1
                /\ Appended = <<[role |-> "user",
                                 text |-> askReqs'[Len(askReqs')].question]>>
             \/ /\ lastOp'.op = "askDone"
                /\ asksCompleted' = asksCompleted + 1
                /\ \A i \in 1..Len(Appended) : Appended[i].role = "assistant"
       /\ (asksStarted' # asksStarted \/ asksCompleted' # asksCompleted) =>
             chatMessages' # chatMessages
      ]_vars

\* two asks, the first failed and the second answered: four entries in the
\* order they were appended
C34_Witness ==
    /\ Len(chatMessages) = 4
    /\ chatMessages[1].role = "user"
    /\ chatMessages[2] = ApologyMessage
    /\ chatMessages[3].role = "user"
    /\ chatMessages[4] = AnswerMessage
    /\ asksCompleted = 2

(***************************************************************************)
(* Properties of a failed catalog search.                                  *)
(***************************************************************************)
CatalogFailed == lastOp'.op = "catalogDone" /\ lastOp'.resp.kind # "success"

\* C35: the completion of a catalog search that failed (the request was
\* rejected or answered with a non-2xx status) sets the generic error and
\* clears loading; view, results, matchQuality, the manager-offer fields,
\* criteria and chatMessages are what they were just before it.
C35_FailedSearchKeepsState ==
    [][CatalogFailed =>
          /\ error' = "catalog_failed"
          /\ loading' = FALSE
          /\ UNCHANGED <<view, results, matchQuality, managerRecommended, managerMessage,
                         managerCallToAction, lastManagerOffer, criteria, chatMessages>>
      ]_vars

\* a search failed after an earlier one had filled the list and the offer,
\* and after an ask
C35_Witness ==
    /\ lastOp.op = "catalogDone"
    /\ lastOp.resp.kind = "non_2xx"
    /\ error = "catalog_failed"
    /\ ~loading
    /\ Len(results) = 2
    /\ matchQuality = "strong"
    /\ managerRecommended
    /\ Len(chatMessages) = 2

(***************************************************************************)
(* Properties of the progress interval.                                    *)
(***************************************************************************)
\* C36: between handlers an interval of the progress ticker is live exactly
\* when chatLoading is true, it is the one the module-level handle names,
\* and there is at most one; a tick runs only while an ask is in flight, and
\* the step that starts an ask leaves the new interval as the only one.
C36_OneTickerIffLoading ==
    /\ []((liveTimers # {}) <=> chatLoading)
    /\ [](Cardinality(liveTimers) <= 1)
    /\ [](liveTimers = IF chatLoading THEN {chatProgressTimer} ELSE {})
    /\ [](~chatLoading => chatProgressTimer = NoTimer)
    /\ [][lastOp'.op = "tick" => chatLoading /\ Len(askReqs) = 1]_vars
    /\ [][asksStarted' # asksStarted => liveTimers' = {timerSeq'} /\ timerSeq' # timerSeq]_vars

\* the second ask of a session is in flight and its interval, the second
\* one registered, has ticked
C36_Witness ==
    /\ asksStarted = 2
    /\ chatLoading
    /\ timerSeq = 2
    /\ liveTimers = {2}
    /\ chatElapsedSec > 0
    /\ lastOp.op = "tick"

(***************************************************************************)
(* Properties of the criteria over a session.                              *)
(***************************************************************************)
\* C37: no step of a session unsets a criteria field that is set, so
\* complete criteria stay complete; a search is issued from complete
\* criteria, and the criteria are complete for as long as it is in flight.
C37_CriteriaNeverUnset ==
    /\ [][\A f \in CriteriaFields : criteria[f] # Unset(f) => criteria'[f] # Unset(f)]_vars
    /\ [][isCriteriaComplete(criteria) => isCriteriaComplete(criteria')]_vars
    /\ [](\A i \in 1..Len(catalogReqs) :
             isCriteriaComplete(catalogReqs[i].params) /\ isCriteriaComplete(criteria))

\* a field was chosen anew while the search issued from the earlier criteria
\* was in flight
C37_Witness ==
    /\ lastOp.op = "select"
    /\ Len(catalogReqs) = 1
    /\ catalogReqs[1].params # criteria
    /\ isCriteriaComplete(criteria)
    /\ loading

(***************************************************************************)
(* Properties of the message a hand-off leaves.                            *)
(***************************************************************************)
\* sendData was called and returned
SendDataReturned ==
    \E i \in CallIndexes(handoff.calls, {"sendData"}) : ~handoff.calls[i].threw

\* C38: after a hand-off that fell back to the structured flow, state.error
\* says that the context was sent to the bot only if sendData was called and
\* returned; when the payload was rejected, the host has no sendData or
\* sendData threw, state.error is the message of that failure.
C38_ContextSentOnlyWhenSent ==
    StructuredFlowRan =>
        /\ error = "manager_fallback" => SendDataReturned
        /\ StructuredFlowFailed => error = handoff.flowError

(***************************************************************************)
(* Properties of the writes to state.results.                              *)
(***************************************************************************)
CatalogSucceededNow == lastOp'.op = "catalogDone" /\ lastOp'.resp.kind = "success"

AskSucceededWithProducts == lastOp'.op = "askDone" /\ GoodProducts(lastOp'.resp)

\* C39: results changes only in the completion of a successful catalog
\* search, which replaces it by the items of the response, and in the
\* completion of a successful ask with a non-empty list of recommended
\* products, which replaces it by those products; navigation, criteria
\* selection, failed completions, ask successes without products, ticks and
\* hand-offs leave it as it was.
C39_ResultsWrittenOnlyByCompletions ==
    [][/\ results' # results => CatalogSucceededNow \/ AskSucceededWithProducts
       /\ CatalogSucceededNow => results' = lastOp'.resp.items
       /\ AskSucceededWithProducts => results' = MapItems(lastOp'.resp.products)
       /\ lastOp'.op \in NavigationOps \cup HandoffOps \cup {"select", "tick", "clickSubmit",
                                                            "clickQuickPrompt", "askSettle",
                                                            "catalogSettle"} =>
             results' = results
       /\ (lastOp'.op \in {"catalogDone", "askDone"} /\ lastOp'.resp.kind # "success") =>
             results' = results
       /\ (lastOp'.op = "askDone" /\ lastOp'.resp.kind = "success"
              /\ lastOp'.resp.products = <<>>) => results' = results
      ]_vars

\* an ask replaced the two items of a search by its one product, after a
\* hand-off that fell back to the structured flow had left them alone
C39_Witness ==
    /\ lastOp.op = "askDone"
    /\ GoodProducts(lastOp.resp)
    /\ results = MapItems(lastOp.resp.products)
    /\ Len(results) = 1
    /\ handoff.built = "accepted"
    /\ Len(handoff.payload.top) = 2

(***************************************************************************)
(* Properties of the tab history of the admin Mini App.                    *)
(***************************************************************************)
AdminOps == {"switchTab", "openHistory", "quickBack"}

\* C40: after any sequence of tab switches and back actions the tab history
\* is non-empty, starts with the leads tab and holds no two equal
\* neighbours, and the tab shown is the last entry of the history; a back
\* action at a history of one entry shows leads and leaves the history as
\* it is.
C40_TabHistoryShape ==
    /\ [](/\ Len(tabHistory) >= 1
          /\ tabHistory[1] = "leads"
          /\ \A i \in 1..(Len(tabHistory) - 1) : tabHistory[i] # tabHistory[i + 1])
    /\ [](lastOp.op \in AdminOps => activeTab = tabHistory[Len(tabHistory)])
    /\ [][(lastOp'.op = "quickBack" /\ Len(tabHistory) = 1) =>
             /\ tabHistory' = tabHistory
             /\ activeTab' = "leads"]_vars
    /\ [][(lastOp'.op = "quickBack" /\ Len(tabHistory) > 1) =>
             tabHistory' = SubSeq(tabHistory, 1, Len(tabHistory) - 1)]_vars

\* back from the history tab to the conversations tab under it
C40_Witness ==
    /\ lastOp.op = "quickBack"
    /\ tabHistory = <<"leads", "conversations">>
    /\ activeTab = "conversations"

====
